---- MODULE Spec2Model ----
(***************************************************************************)
(* BM3D-style collaborative-filtering denoiser of                          *)
(* src-tauri/src/denoising.rs, as a state machine.                         *)
(*                                                                         *)
(* Numbers.  The program computes in f32.  The model computes in fixed     *)
(* point, every quantity an integer count of a stated unit:                *)
(*   intensity            1/1000            (IS)                           *)
(*   pixel and transform  1/1000 of a unit of the 0..255 scale   (VS)      *)
(*   DCT coefficients     1/16384           (CS)                           *)
(*   patch distances      1/100             (DS)                           *)
(*   input samples        1/1000000         (PS)                           *)
(*   Wiener gains         1/1000            (GS)                           *)
(*   window               1/10000           (KS)                           *)
(*   group weights        1/100000          (FIXED_POINT_SCALE)            *)
(* A product is rounded to the nearest unit where f32 rounds, and          *)
(* truncated toward zero where the program casts to i64.                   *)
(***************************************************************************)
EXTENDS Integers, Sequences, FiniteSets, TLC

\* ---- program constants (denoising.rs:15-20) ----
BLOCK_SIZE == 8
BLOCK_AREA == 64
MAX_GROUP_SIZE == 16
STRIDE == 6
SEARCH_WINDOW == 19
FIXED_POINT_SCALE == 100000
MAX_CANDIDATES == 1024
NUM_CHANNELS == 3
PROGRESS_EVERY == 200

\* ---- fixed-point units of the model ----
IS == 1000
VS == 1000
CS == 16384
DS == 100
PS == 1000000
GS == 1000
KS == 10000

\* ---- arithmetic helpers ----
Abs(a) == IF a < 0 THEN -a ELSE a

Min(a, b) == IF a < b THEN a ELSE b

Max(a, b) == IF a < b THEN b ELSE a

\* usize::saturating_sub
SatSub(a, b) == IF a > b THEN a - b ELSE 0

\* f32::clamp
Clamp(v, lo, hi) == IF v < lo THEN lo ELSE IF v > hi THEN hi ELSE v

\* a / b rounded to the nearest integer (b > 0): an f32 operation's rounding
RDiv(a, b) == IF a >= 0 THEN (a + b \div 2) \div b ELSE -(((-a) + b \div 2) \div b)

\* a / b truncated toward zero (b > 0): the `as i64` cast
TDiv(a, b) == IF a >= 0 THEN a \div b ELSE -((-a) \div b)

\* a * b / c rounded to nearest, without forming a * b (0 <= b, 0 < c)
MulDivR(a, b, c) ==
    LET m == Abs(a)
        v == (m \div c) * b + RDiv((m % c) * b, c)
    IN IF a >= 0 THEN v ELSE -v

\* a * b / c truncated toward zero, without forming a * b (0 <= b, 0 < c)
MulDivT(a, b, c) ==
    LET m == Abs(a)
        v == (m \div c) * b + ((m % c) * b) \div c
    IN IF a >= 0 THEN v ELSE -v

\* TLC re-evaluates a function constructor at every application; comparing
\* the function makes TLC build its table once.  Table(f) is f.
Table(f) == IF f = f THEN f ELSE f

\* ---- DctTables::new (denoising.rs:490-523) ----
\* cos(m * pi / 16) in units of 1/CS, m = 0..31
Cos16 ==
    << 16384, 16069, 15137, 13623, 11585, 9102, 6270, 3196,
       0, -3196, -6270, -9102, -11585, -13623, -15137, -16069,
       -16384, -16069, -15137, -13623, -11585, -9102, -6270, -3196,
       0, 3196, 6270, 9102, 11585, 13623, 15137, 16069 >>

\* ((n + 0.5) * k * PI / 8).cos() in units of 1/CS
CosNK(n, k) == Cos16[(((2 * n + 1) * k) % 32) + 1]

\* `if k == 0 { 0.35355339 } else { 0.5 }` in units of 1/CS
DctScale(k) == IF k = 0 THEN 5793 ELSE 8192

\* dct_coeff[k * 8 + n] = val * scale
dct_coeff ==
    Table([i \in 0..63 |-> RDiv(CosNK(i % 8, i \div 8) * DctScale(i \div 8), CS)])

\* idct_coeff[n * 8 + k] = scale * theta.cos()
idct_coeff ==
    Table([i \in 0..63 |-> RDiv(DctScale(i % 8) * CosNK(i \div 8, i % 8), CS)])

\* (PI * x / 7).sin() in units of 1/KS.  In f32 the last entry is
\* sin(3.1415927) = -8.742e-8, which is 0 in these units; NumFixed accounts
\* for what it adds to a numerator.
Sin7 == << 0, 4339, 7818, 9749, 9749, 7818, 4339, 0 >>

\* kaiser[y * 8 + x] = wx * wy
kaiser ==
    Table([i \in 0..63 |-> RDiv(Sin7[(i % 8) + 1] * Sin7[(i \div 8) + 1], KS)])

\* ---- 8x8 transforms (denoising.rs:588-647) ----
\* transpose_8x8
transpose_8x8(b) == Table([i \in 0..63 |-> b[(i % 8) * 8 + i \div 8]])

\* The loop body shared by dct_1d_8 and idct_1d_8, applied to each of the 8
\* rows of a block: x[k] = sum over n of tmp[n] * coeffs[k * 8 + n].
\* tmp[n] = q[n] * CS + r[n], so that no product leaves the integer range.
Rows1d(b, coeffs) ==
    LET q == Table([j \in 0..63 |-> b[j] \div CS])
        r == Table([j \in 0..63 |-> b[j] % CS])
    IN Table([i \in 0..63 |->
          LET o == (i \div 8) * 8
              c == (i % 8) * 8
          IN  q[o] * coeffs[c] + q[o + 1] * coeffs[c + 1]
            + q[o + 2] * coeffs[c + 2] + q[o + 3] * coeffs[c + 3]
            + q[o + 4] * coeffs[c + 4] + q[o + 5] * coeffs[c + 5]
            + q[o + 6] * coeffs[c + 6] + q[o + 7] * coeffs[c + 7]
            + RDiv(  r[o] * coeffs[c] + r[o + 1] * coeffs[c + 1]
                   + r[o + 2] * coeffs[c + 2] + r[o + 3] * coeffs[c + 3]
                   + r[o + 4] * coeffs[c + 4] + r[o + 5] * coeffs[c + 5]
                   + r[o + 6] * coeffs[c + 6] + r[o + 7] * coeffs[c + 7], CS)])

\* dct_2d_8x8: rows, transpose, rows, transpose
dct_2d_8x8(block, coeffs) ==
    transpose_8x8(Rows1d(transpose_8x8(Rows1d(block, coeffs)), coeffs))

\* idct_2d_8x8: transpose, rows, transpose, rows
idct_2d_8x8(block, coeffs) ==
    Rows1d(transpose_8x8(Rows1d(transpose_8x8(block), coeffs)), coeffs)

\* ---- walsh_hadamard_1d (denoising.rs:649-668) ----
\* one pass of the `while h < n` loop: butterflies of half-width h
ButterflyPass(data, n, h) ==
    Table([j \in 0..(n - 1) |->
             IF (j \div h) % 2 = 0 THEN data[j] + data[j + h] ELSE data[j - h] - data[j]])

RECURSIVE Butterflies(_, _, _)
Butterflies(data, n, h) ==
    IF h < n THEN Butterflies(ButterflyPass(data, n, h), n, 2 * h) ELSE data

\* 1.0 / (n as f32).sqrt() as the fraction <<numerator, denominator>>
InvSqrt(n) ==
    CASE n = 1 -> <<1, 1>>
      [] n = 2 -> <<7071, 10000>>
      [] n = 4 -> <<1, 2>>
      [] n = 8 -> <<3536, 10000>>
      [] n = 16 -> <<1, 4>>

walsh_hadamard_1d(data, n) ==
    LET d == Butterflies(data, n, 1)
        s == InvSqrt(n)
    IN Table([j \in 0..(n - 1) |-> MulDivR(d[j], s[1], s[2])])

\* ---- transform_3d / inverse_transform_3d (denoising.rs:552-586) ----
\* the `for i in 0..64` loop: a Hadamard transform down each of the 64 columns
HadamardColumns(patches, group_size) ==
    LET cols == Table([i \in 0..63 |->
                   walsh_hadamard_1d(Table([k \in 0..(group_size - 1) |-> patches[k][i]]),
                                     group_size)])
    IN Table([k \in 0..(group_size - 1) |-> [i \in 0..63 |-> cols[i][k]]])

\* a stack is kept as group_size patches of 64: stack[k][i] is stack[k*64+i]
transform_3d(stack, group_size) ==
    HadamardColumns(Table([k \in 0..(group_size - 1) |-> dct_2d_8x8(stack[k], dct_coeff)]),
                    group_size)

inverse_transform_3d(stack, group_size) ==
    LET hs == HadamardColumns(stack, group_size)
    IN Table([k \in 0..(group_size - 1) |-> idct_2d_8x8(hs[k], idct_coeff)])

\* ---- f32 arithmetic ----
\* An f32 value is << m, e >>, the number m * 2^e, with m = 0 and e = 0 for
\* zero and 2^23 <= |m| < 2^24 otherwise.  Operations round to nearest, ties
\* to even, as the hardware does; the exponent is not bounded (no value of
\* the transforms comes near the subnormal or the overflow range).
Pow2(n) == 2 ^ n

FZero == << 0, 0 >>

RECURSIVE BitLenFrom(_, _)
BitLenFrom(s, len) ==
    IF len = 0 \/ s >= Pow2(len - 1) THEN len ELSE BitLenFrom(s, len - 1)

\* the number of bits of s, 0 <= s < 2^31
BitLen(s) == BitLenFrom(s, 31)

\* the f32 nearest to sign * (s + t) * 2^e, where 0 <= t < 1 and t > 0 iff sticky
FRoundK(sign, s, sticky, e, k) ==
    LET q == s \div Pow2(k)
        r == s % Pow2(k)
        half == Pow2(k - 1)
        up == r > half \/ (r = half /\ (sticky \/ q % 2 = 1))
        q2 == IF up THEN q + 1 ELSE q
    IN IF q2 = Pow2(24) THEN << sign * Pow2(23), e + k + 1 >>
       ELSE << sign * q2, e + k >>

FRound(sign, s, sticky, e) ==
    IF s = 0 THEN FZero
    ELSE IF BitLen(s) <= 24
         THEN << sign * s * Pow2(24 - BitLen(s)), e - (24 - BitLen(s)) >>
         ELSE FRoundK(sign, s, sticky, e, BitLen(s) - 24)

Sign(m) == IF m < 0 THEN -1 ELSE 1

\* the 48-bit product of two 24-bit mantissas as << hi, lo >>, hi * 2^24 + lo
WideMul(ma, mb) ==
    LET a1 == ma \div 4096
        a0 == ma % 4096
        b1 == mb \div 4096
        b0 == mb % 4096
        mid == a1 * b0 + a0 * b1
        lo == (mid % 4096) * 4096 + a0 * b0
    IN << a1 * b1 + mid \div 4096 + lo \div Pow2(24), lo % Pow2(24) >>

FMulWide(sign, p, e) ==
    FRound(sign, p[1] * 64 + p[2] \div Pow2(18), p[2] % Pow2(18) # 0, e + 18)

\* a * b in f32
FMul(a, b) ==
    IF a[1] = 0 \/ b[1] = 0 THEN FZero
    ELSE FMulWide(Sign(a[1]) * Sign(b[1]), WideMul(Abs(a[1]), Abs(b[1])), a[2] + b[2])

\* big + small for |big| of the greater exponent, exponents d > 6 apart:
\* small is shifted under the six guard bits of big
FAddFar(big, small, d) ==
    LET k == d - 6
        bq == IF k >= 25 THEN 0 ELSE Abs(small[1]) \div Pow2(k)
        sticky == IF k >= 25 THEN TRUE ELSE Abs(small[1]) % Pow2(k) # 0
        same == Sign(big[1]) = Sign(small[1])
        s == IF same THEN Abs(big[1]) * 64 + bq
             ELSE IF sticky THEN Abs(big[1]) * 64 - bq - 1
             ELSE Abs(big[1]) * 64 - bq
    IN FRound(Sign(big[1]), s, sticky, big[2] - 6)

\* exponents at most 6 apart: the sum is an integer multiple of 2^small.e
FAddNear(big, small, d) ==
    FRound(Sign(big[1] * Pow2(d) + small[1]), Abs(big[1] * Pow2(d) + small[1]),
           FALSE, small[2])

FAddOrdered(big, small) ==
    IF big[2] - small[2] > 6 THEN FAddFar(big, small, big[2] - small[2])
    ELSE FAddNear(big, small, big[2] - small[2])

\* a + b in f32
FAdd(a, b) ==
    IF a[1] = 0 THEN b
    ELSE IF b[1] = 0 THEN a
    ELSE IF a[2] >= b[2] THEN FAddOrdered(a, b) ELSE FAddOrdered(b, a)

\* a - b in f32
FSub(a, b) == FAdd(a, << -b[1], b[2] >>)

\* `k as f32` for an integer |k| < 2^24
FromInt(k) == FRound(Sign(k), Abs(k), FALSE, 0)

\* |a| <= |c| for c # 0
FAbsLeq(a, c) ==
    \/ a[1] = 0
    \/ a[2] < c[2]
    \/ a[2] = c[2] /\ Abs(a[1]) <= Abs(c[1])

\* ---- DctTables::new in f32 (denoising.rs:490-507) ----
\* ((n as f32 + 0.5) * c).cos() of line 497 at index k * 8 + n + 1, for the
\* f32 argument the code computes and a correctly rounded cosine
CosDct ==
    <<
       << 8388608, -23 >>, << 8388608, -23 >>, << 8388608, -23 >>, << 8388608, -23 >>,
       << 8388608, -23 >>, << 8388608, -23 >>, << 8388608, -23 >>, << 8388608, -23 >>,
       << 16454846, -24 >>, << 13949745, -24 >>, << 9320921, -24 >>, << 13092284, -26 >>,
       << -13092290, -26 >>, << -9320924, -24 >>, << -13949746, -24 >>, << -16454847, -24 >>,
       << 15500126, -24 >>, << 12840725, -25 >>, << -12840728, -25 >>, << -15500128, -24 >>,
       << -15500126, -24 >>, << -12840715, -25 >>, << 12840731, -25 >>, << 15500127, -24 >>,
       << 13949745, -24 >>, << -13092290, -26 >>, << -16454847, -24 >>, << -9320918, -24 >>,
       << 9320919, -24 >>, << 16454846, -24 >>, << 13092304, -26 >>, << -13949748, -24 >>,
       << 11863283, -24 >>, << -11863283, -24 >>, << -11863281, -24 >>, << 11863287, -24 >>,
       << 11863283, -24 >>, << -11863291, -24 >>, << -11863279, -24 >>, << 11863284, -24 >>,
       << 9320921, -24 >>, << -16454847, -24 >>, << 13092296, -26 >>, << 13949741, -24 >>,
       << -13949748, -24 >>, << -13092283, -26 >>, << 16454844, -24 >>, << -9320932, -24 >>,
       << 12840725, -25 >>, << -15500126, -24 >>, << 15500127, -24 >>, << -12840741, -25 >>,
       << -12840739, -25 >>, << 15500123, -24 >>, << -15500124, -24 >>, << 12840741, -25 >>,
       << 13092284, -26 >>, << -9320918, -24 >>, << 13949741, -24 >>, << -16454845, -24 >>,
       << 16454849, -24 >>, << -13949754, -24 >>, << 9320937, -24 >>, << -13092372, -26 >>
    >>

\* theta.cos() of line 506 at index n * 8 + k + 1, likewise
CosIdct ==
    <<
       << 8388608, -23 >>, << 16454846, -24 >>, << 15500126, -24 >>, << 13949745, -24 >>,
       << 11863283, -24 >>, << 9320921, -24 >>, << 12840725, -25 >>, << 13092284, -26 >>,
       << 8388608, -23 >>, << 13949745, -24 >>, << 12840725, -25 >>, << -13092290, -26 >>,
       << -11863283, -24 >>, << -16454847, -24 >>, << -15500126, -24 >>, << -9320918, -24 >>,
       << 8388608, -23 >>, << 9320921, -24 >>, << -12840728, -25 >>, << -16454847, -24 >>,
       << -11863281, -24 >>, << 13092296, -26 >>, << 15500130, -24 >>, << 13949741, -24 >>,
       << 8388608, -23 >>, << 13092284, -26 >>, << -15500128, -24 >>, << -9320918, -24 >>,
       << 11863287, -24 >>, << 13949741, -24 >>, << -12840741, -25 >>, << -16454845, -24 >>,
       << 8388608, -23 >>, << -13092290, -26 >>, << -15500126, -24 >>, << 9320919, -24 >>,
       << 11863283, -24 >>, << -13949748, -24 >>, << -12840739, -25 >>, << 16454846, -24 >>,
       << 8388608, -23 >>, << -9320924, -24 >>, << -12840715, -25 >>, << 16454846, -24 >>,
       << -11863291, -24 >>, << -13092220, -26 >>, << 15500123, -24 >>, << -13949754, -24 >>,
       << 8388608, -23 >>, << -13949746, -24 >>, << 12840731, -25 >>, << 13092273, -26 >>,
       << -11863279, -24 >>, << 16454847, -24 >>, << -15500130, -24 >>, << 9320937, -24 >>,
       << 8388608, -23 >>, << -16454847, -24 >>, << 15500127, -24 >>, << -13949748, -24 >>,
       << 11863284, -24 >>, << -9320919, -24 >>, << 12840741, -25 >>, << -13092246, -26 >>
    >>

\* `if k == 0 { 0.35355339 } else { 0.5 }`
DctScaleF(k) == IF k = 0 THEN << 11863283, -25 >> ELSE << 8388608, -24 >>

\* dct_coeff[k * 8 + n] = val * scale
dct_coeff_f32 == Table([i \in 0..63 |-> FMul(CosDct[i + 1], DctScaleF(i \div 8))])

\* idct_coeff[n * 8 + k] = scale * theta.cos()
idct_coeff_f32 == Table([i \in 0..63 |-> FMul(DctScaleF(i % 8), CosIdct[i + 1])])

\* ---- the transforms in f32 (denoising.rs:552-668) ----
\* `s += tmp[n] * coeffs[row_start + n]` for n, n + 1, .. 7, from s
RECURSIVE DotRow(_, _, _, _, _, _)
DotRow(tmp, o, coeffs, row_start, n, s) ==
    IF n = 8 THEN s
    ELSE DotRow(tmp, o, coeffs, row_start, n + 1,
                FAdd(s, FMul(tmp[o + n], coeffs[row_start + n])))

\* dct_1d_8 / idct_1d_8 on each of the 8 rows of a block
Rows1dF(b, coeffs) ==
    Table([i \in 0..63 |-> DotRow(b, (i \div 8) * 8, coeffs, (i % 8) * 8, 0, FZero)])

dct_2d_8x8_f32(block, coeffs) ==
    transpose_8x8(Rows1dF(transpose_8x8(Rows1dF(block, coeffs)), coeffs))

idct_2d_8x8_f32(block, coeffs) ==
    Rows1dF(transpose_8x8(Rows1dF(transpose_8x8(block), coeffs)), coeffs)

ButterflyPassF(data, n, h) ==
    Table([j \in 0..(n - 1) |->
             IF (j \div h) % 2 = 0 THEN FAdd(data[j], data[j + h])
             ELSE FSub(data[j - h], data[j])])

RECURSIVE ButterfliesF(_, _, _)
ButterfliesF(data, n, h) ==
    IF h < n THEN ButterfliesF(ButterflyPassF(data, n, h), n, 2 * h) ELSE data

\* 1.0 / (n as f32).sqrt(): the square root and the quotient rounded to f32
InvSqrtF(n) ==
    CASE n = 1 -> << 8388608, -23 >>
      [] n = 2 -> << 11863283, -24 >>
      [] n = 4 -> << 8388608, -24 >>
      [] n = 8 -> << 11863283, -25 >>
      [] n = 16 -> << 8388608, -25 >>

\* walsh_hadamard_1d without the scaling of lines 664-667
walsh_hadamard_1d_f32_unscaled(data, n) == ButterfliesF(data, n, 1)

walsh_hadamard_1d_f32(data, n) ==
    Table([j \in 0..(n - 1) |-> FMul(ButterfliesF(data, n, 1)[j], InvSqrtF(n))])

HadamardColumnsF(patches, group_size) ==
    LET cols == Table([i \in 0..63 |->
                   walsh_hadamard_1d_f32(Table([k \in 0..(group_size - 1) |-> patches[k][i]]),
                                         group_size)])
    IN Table([k \in 0..(group_size - 1) |-> [i \in 0..63 |-> cols[i][k]]])

transform_3d_f32(stack, group_size) ==
    HadamardColumnsF(Table([k \in 0..(group_size - 1) |->
                               dct_2d_8x8_f32(stack[k], dct_coeff_f32)]),
                     group_size)

inverse_transform_3d_f32(stack, group_size) ==
    Table([k \in 0..(group_size - 1) |->
              idct_2d_8x8_f32(HadamardColumnsF(stack, group_size)[k], idct_coeff_f32)])

\* ---- Bm3dParams::from_intensity (denoising.rs:29-42) ----
\* i in units of 1/IS; sigma and hard_th_lambda in units of 1/VS,
\* max_dist_hard in units of 1/DS
\* from_intensity without the clamp of line 31
from_intensity_unclamped(i) ==
    [sigma |-> i * 80,
     hard_th_lambda |-> 2 * VS + RDiv(i * 5, 2),
     max_dist_hard |-> 3000 * DS + i * 2000]

from_intensity(i) ==
    LET val == Clamp(i, 1, IS)
    IN [sigma |-> val * 80,
        hard_th_lambda |-> 2 * VS + RDiv(val * 5, 2),
        max_dist_hard |-> 3000 * DS + val * 2000]

\* ---- split_channels / merge_channels (denoising.rs:670-693) ----
\* img[i] is the pixel <<r, g, b>> of raster index i, samples in units of 1/PS
split_channels(img, w, h) ==
    [c \in 0..2 |-> Table([i \in 0..(w * h - 1) |-> RDiv(img[i][c + 1] * 255, PS \div VS)])]

\* merge_channels without the clamp of line 689
merge_channels_unclamped(channels, w, h) ==
    Table([i \in 0..(w * h - 1) |->
        << RDiv(channels[0][i] * (PS \div VS), 255),
           RDiv(channels[1][i] * (PS \div VS), 255),
           RDiv(channels[2][i] * (PS \div VS), 255) >>])

merge_channels(channels, w, h) ==
    Table([i \in 0..(w * h - 1) |->
        << RDiv(Clamp(channels[0][i], 0, 255 * VS) * (PS \div VS), 255),
           RDiv(Clamp(channels[1][i], 0, 255 * VS) * (PS \div VS), 255),
           RDiv(Clamp(channels[2][i], 0, 255 * VS) * (PS \div VS), 255) >>])

\* ---- prev_power_of_two (denoising.rs:695-704) ----
RECURSIVE DoubleWhile(_, _)
DoubleWhile(p, x) == IF p * 2 <= x THEN DoubleWhile(p * 2, x) ELSE p

\* the limit itself, not rounded down to a power of two
prev_power_of_two_none(x) == x

\* the loop of line 700 with `p * 2 < x` for its condition
prev_power_of_two_strict(x) == IF x <= 1 THEN x ELSE DoubleWhile(1, x - 1)

prev_power_of_two(x) == IF x = 0 THEN 0 ELSE DoubleWhile(1, x)

\* ---- extract_patch / build_3d_group (denoising.rs:466-482) ----
extract_patch(img, w, x, y) ==
    Table([i \in 0..63 |-> img[(y + (i \div 8)) * w + x + (i % 8)]])

\* locs is the sequence group_locs; patch k of the stack is locs[k + 1]
build_3d_group(img, w, locs) ==
    Table([k \in 0..(Len(locs) - 1) |-> extract_patch(img, w, locs[k + 1][1], locs[k + 1][2])])

\* ---- compute_ssd_flat (denoising.rs:442-464) ----
\* diff * diff in units of 1/DS; diff is taken to 1/100 before it is squared
SqDiff(a, b) ==
    LET diff == RDiv(a - b, VS \div 100)
    IN RDiv(diff * diff, (100 * 100) \div DS)

\* one row of the `for dx in 0..8` loop
RowSsd(img, w, x, y, ref_patch, dy) ==
    LET ib == (y + dy) * w + x
        rb == dy * 8
    IN  SqDiff(img[ib], ref_patch[rb]) + SqDiff(img[ib + 1], ref_patch[rb + 1])
      + SqDiff(img[ib + 2], ref_patch[rb + 2]) + SqDiff(img[ib + 3], ref_patch[rb + 3])
      + SqDiff(img[ib + 4], ref_patch[rb + 4]) + SqDiff(img[ib + 5], ref_patch[rb + 5])
      + SqDiff(img[ib + 6], ref_patch[rb + 6]) + SqDiff(img[ib + 7], ref_patch[rb + 7])

\* the `for dy in 0..8` loop from row dy on, dist accumulated so far
RECURSIVE SsdRows(_, _, _, _, _, _, _, _)
SsdRows(img, w, x, y, ref_patch, stop_thr, dy, dist) ==
    IF dy = 8 THEN RDiv(dist, BLOCK_AREA)
    ELSE LET d == dist + RowSsd(img, w, x, y, ref_patch, dy)
         IN IF d > stop_thr THEN d
            ELSE SsdRows(img, w, x, y, ref_patch, stop_thr, dy + 1, d)

compute_ssd_flat(img, w, x, y, ref_patch, stop_thr) ==
    SsdRows(img, w, x, y, ref_patch, stop_thr, 0, 0)

\* ---- block_matching_joint (denoising.rs:356-440) ----
\* `x as u16`
AsU16(v) == v % 65536

\* the (x, y) visited by `for y in sy_start..=sy_end { for x in sx_start..=sx_end`,
\* in the order of the loops
WindowSeq(sx_start, sx_end, sy_start, sy_end) ==
    LET nx == sx_end - sx_start + 1
        ny == sy_end - sy_start + 1
    IN IF nx <= 0 \/ ny <= 0 THEN << >>
       ELSE [i \in 1..(nx * ny) |-> << sx_start + ((i - 1) % nx), sy_start + ((i - 1) \div nx) >>]

\* The loop body for one (x, y) other than the reference: its total_dist,
\* or -1 where the body ends without storing the candidate.
\* Line 417, for total_dist
AfterB(total_dist, threshold) == IF total_dist < threshold THEN total_dist ELSE -1

\* lines 410-415, for d_r and d_g
AfterG(channels, w, x, y, ref_b, threshold, d_r, d_g) ==
    IF d_r + d_g > threshold THEN -1
    ELSE AfterB(d_r + d_g + compute_ssd_flat(channels[2], w, x, y, ref_b,
                                             threshold - (d_r + d_g)),
                threshold)

\* lines 405-409, for d_r
AfterR(channels, w, x, y, ref_g, ref_b, threshold, d_r) ==
    IF d_r > threshold THEN -1
    ELSE AfterG(channels, w, x, y, ref_b, threshold, d_r,
                compute_ssd_flat(channels[1], w, x, y, ref_g, threshold - d_r))

\* line 404 and on
CandidateDist(channels, w, x, y, ref_r, ref_g, ref_b, threshold) ==
    AfterR(channels, w, x, y, ref_g, ref_b, threshold,
           compute_ssd_flat(channels[0], w, x, y, ref_r, threshold))

\* the slice left in the order of the scan
sort_unstable_by_none(c, tie) == c

\* slice::sort_unstable_by on dist.  The result is ascending in dist; the
\* order of elements of equal dist is left open by the library, and tie names
\* what the build does with them: "kept" as they were, or "reversed".
Before(c, i, j, tie) ==
    \/ c[i].dist < c[j].dist
    \/ c[i].dist = c[j].dist /\ (IF tie = "kept" THEN i < j ELSE i > j)

sort_unstable_by(c, tie) ==
    LET n == Len(c)
        rank == Table([i \in 1..n |-> Cardinality({j \in 1..n : Before(c, j, i, tie)})])
    IN Table([r \in 1..n |-> c[CHOOSE i \in 1..n : rank[i] = r - 1]])

\* lines 372-376
Threshold(is_step_1, params) ==
    IF is_step_1 THEN params.max_dist_hard ELSE RDiv(params.max_dist_hard, 2)

\* the window without the clamp to the last block position
SearchWindow_unclamped(w, h, rx, ry) ==
    WindowSeq(SatSub(rx, SEARCH_WINDOW \div 2), rx + SEARCH_WINDOW \div 2,
              SatSub(ry, SEARCH_WINDOW \div 2), ry + SEARCH_WINDOW \div 2)

\* lines 385-389 and the ranges of the loops of lines 398-399
SearchWindow(w, h, rx, ry) ==
    WindowSeq(SatSub(rx, SEARCH_WINDOW \div 2),
              Min(rx + SEARCH_WINDOW \div 2, SatSub(w, BLOCK_SIZE)),
              SatSub(ry, SEARCH_WINDOW \div 2),
              Min(ry + SEARCH_WINDOW \div 2, SatSub(h, BLOCK_SIZE)))

\* one pass of the loop body, lines 400-427: the Match it would store, with
\* dist = -1 where it stores none
Visit(channels, w, rx, ry, x, y, ref_r, ref_g, ref_b, threshold) ==
    [dist |-> IF x = rx /\ y = ry THEN -1
              ELSE CandidateDist(channels, w, x, y, ref_r, ref_g, ref_b, threshold),
     x |-> AsU16(x), y |-> AsU16(y)]

ScanWindow(channels, w, rx, ry, window, ref_r, ref_g, ref_b, threshold) ==
    Table([i \in 1..Len(window) |->
        Visit(channels, w, rx, ry, window[i][1], window[i][2],
              ref_r, ref_g, ref_b, threshold)])

\* the candidate array with room for MAX_GROUP_SIZE entries only
Candidates_group_cap(stored, rx, ry) ==
    << [dist |-> 0, x |-> AsU16(rx), y |-> AsU16(ry)] >>
    \o SubSeq(stored, 1, Min(Len(stored), MAX_GROUP_SIZE - 1))

\* candidates[0..cand_count]: the reference (lines 391-396), then the stored
\* matches while cand_count < MAX_CANDIDATES (line 418)
Candidates(stored, rx, ry) ==
    << [dist |-> 0, x |-> AsU16(rx), y |-> AsU16(ry)] >>
    \o SubSeq(stored, 1, Min(Len(stored), MAX_CANDIDATES - 1))

\* lines 433-439
CutGroup(valid_slice, cand_count) ==
    LET p2_limit == prev_power_of_two(Min(MAX_GROUP_SIZE, cand_count))
    IN [group_size |-> p2_limit,
        out_buf |-> [i \in 1..p2_limit |-> << valid_slice[i].x, valid_slice[i].y >>],
        cand_count |-> cand_count]

\* lines 430-439
SortAndCut(candidates, tie) ==
    CutGroup(sort_unstable_by(candidates, tie), Len(candidates))

\* the result: group_size (the return value), out_buf[0..group_size] as a
\* sequence, and the local cand_count
block_matching_joint(channels, w, h, rx, ry, is_step_1, params, tie) ==
    SortAndCut(
        Candidates(
            SelectSeq(ScanWindow(channels, w, rx, ry, SearchWindow(w, h, rx, ry),
                                 extract_patch(channels[0], w, rx, ry),
                                 extract_patch(channels[1], w, rx, ry),
                                 extract_patch(channels[2], w, rx, ry),
                                 Threshold(is_step_1, params)),
                      LAMBDA m : m.dist >= 0),
            rx, ry),
        tie)

\* hard_threshold with the first element of every patch retained
hard_threshold_per_patch(stack, n, th) ==
    LET kept(k, i) == i = 0 \/ Abs(stack[k][i]) >= th
    IN [stack |-> Table([k \in 0..(n - 1) |->
                     [i \in 0..63 |-> IF kept(k, i) THEN stack[k][i] ELSE 0]]),
        c |-> Cardinality({e \in (0..(n - 1)) \X (0..63) : kept(e[1], e[2])})]

\* ---- hard_threshold (denoising.rs:311-326) ----
\* element i of patch k is element k * 64 + i of the flattened stack
hard_threshold(stack, n, th) ==
    LET kept(k, i) == (k = 0 /\ i = 0) \/ Abs(stack[k][i]) >= th
    IN [stack |-> Table([k \in 0..(n - 1) |->
                     [i \in 0..63 |-> IF kept(k, i) THEN stack[k][i] ELSE 0]]),
        c |-> Cardinality({e \in (0..(n - 1)) \X (0..63) : kept(e[1], e[2])})]

\* the gain taken from amplitudes in place of energies
WienerCoef_amplitude(g, sigma) ==
    IF g = 0 THEN 0 ELSE RDiv(Abs(g) * (GS \div 10), (Abs(g) + sigma) \div 10 + 1)

\* ---- wiener_filter (denoising.rs:328-347) ----
\* energy / (energy + s2 + 1e-5) in units of 1/GS, for g and sigma in units
\* of 1/VS.  Both are first divided by f, which brings the larger to at most
\* 1400, so that the squares stay in range.
WienerCoef(g, sigma) ==
    LET f == (Max(Abs(g), sigma) \div 1400) + 1
        gq == RDiv(Abs(g), f)
        sq == RDiv(sigma, f)
        energy == gq * gq
        s2 == sq * sq + RDiv(10, f * f)
    IN IF energy = 0 THEN 0 ELSE RDiv(energy * GS, energy + s2)

\* the result: the filtered noisy stack and the returned weight, in units of
\* 1/FIXED_POINT_SCALE; sum is in units of 1/(GS*GS)
wiener_filter(noisy, guide, n, sigma) ==
    LET coef == Table([k \in 0..(n - 1) |-> [i \in 0..63 |->
                    IF k = 0 /\ i = 0 THEN GS ELSE WienerCoef(guide[k][i], sigma)]])
        sq(k, i) == coef[k][i] * coef[k][i]
        RowSum(k, o) == sq(k, o) + sq(k, o + 1) + sq(k, o + 2) + sq(k, o + 3)
                        + sq(k, o + 4) + sq(k, o + 5) + sq(k, o + 6) + sq(k, o + 7)
        PatchSum(k) == RowSum(k, 0) + RowSum(k, 8) + RowSum(k, 16) + RowSum(k, 24)
                       + RowSum(k, 32) + RowSum(k, 40) + RowSum(k, 48) + RowSum(k, 56)
        RECURSIVE StackSum(_)
        StackSum(k) == IF k = n THEN 0 ELSE PatchSum(k) + StackSum(k + 1)
        sum == StackSum(0)
    IN [noisy |-> Table([k \in 0..(n - 1) |-> [i \in 0..63 |->
                     IF k = 0 /\ i = 0 THEN noisy[k][i]
                     ELSE MulDivR(noisy[k][i], coef[k][i], GS)]]),
        weight |-> IF sum > 0
                   THEN RDiv(10000 * FIXED_POINT_SCALE, RDiv(sum, (GS * GS) \div 10000))
                   ELSE FIXED_POINT_SCALE]

\* ---- AtomicAccumulator (denoising.rs:525-550) ----
\* an accumulator that starts from a sum instead of zero
new_carried(size) == Table([i \in 0..(size - 1) |-> FIXED_POINT_SCALE])

\* AtomicAccumulator::new: size cells of 0
new(size) == Table([i \in 0..(size - 1) |-> 0])

\* a plain store in place of the atomic add
fetch_add_store(cell, fixed) == fixed

\* AtomicI64::fetch_add: the cell after the add
fetch_add(cell, fixed) == cell + fixed

\* tables.kaiser[..] * weight in units of 1/1000000
WVal(pos, weight) == TDiv(kaiser[pos] * weight, (KS * FIXED_POINT_SCALE) \div 1000000)

\* (w_val * FIXED_POINT_SCALE) as i64
DenFixed(w_val) == TDiv(w_val, 1000000 \div FIXED_POINT_SCALE)

\* the factor of kaiser[pos] next to sin(3.1415927), in units of 1/KS, at a
\* position with exactly one of dx, dy equal to 7; 0 at the other positions
EdgeFactor(pos) ==
    IF (pos % 8 = 7) = (pos \div 8 = 7) THEN 0
    ELSE IF pos % 8 = 7 THEN Sin7[(pos \div 8) + 1] ELSE Sin7[(pos % 8) + 1]

\* (val * w_val * FIXED_POINT_SCALE) as i64, val in units of 1/VS, for
\* w_val = kaiser[pos] * weight.  Where kaiser[pos] has the factor -8.742e-8
\* the product is -(val * factor * weight) * 8.742e-3.
NumFixed(val, pos, weight) ==
    LET m == Abs(val)
        w_val == WVal(pos, weight)
        v == TDiv((m \div VS) * w_val + ((m % VS) * w_val) \div VS,
                  1000000 \div FIXED_POINT_SCALE)
        e == TDiv(MulDivT((MulDivT(m, EdgeFactor(pos), KS) * 874) \div 1000, weight, 1000),
                  10000000)
    IN IF EdgeFactor(pos) > 0
       THEN (IF val >= 0 THEN -e ELSE e)
       ELSE (IF val >= 0 THEN v ELSE -v)

\* ---- run_bm3d_step_joint, one task (denoising.rs:223-295) ----
\* lines 262-270 and 275: hard thresholding of the transformed guide stack
FilterStep1(ht, group_size) ==
    [stack |-> inverse_transform_3d(ht.stack, group_size),
     weight |-> IF ht.c > 0 THEN RDiv(FIXED_POINT_SCALE, ht.c) ELSE FIXED_POINT_SCALE]

\* lines 272 and 275: Wiener filtering of the transformed noisy stack
FilterStep2(wf, group_size) ==
    [stack |-> inverse_transform_3d(wf.noisy, group_size), weight |-> wf.weight]

\* lines 249-275 for one channel: the inverse-transformed stack and the weight
FilterChannel(noisy_ch, guide_ch, w, group_locs, is_step_1, params) ==
    IF is_step_1
    THEN FilterStep1(
             hard_threshold(
                 transform_3d(build_3d_group(guide_ch, w, group_locs), Len(group_locs)),
                 Len(group_locs), RDiv(params.hard_th_lambda * params.sigma, VS)),
             Len(group_locs))
    ELSE FilterStep2(
             wiener_filter(
                 transform_3d(build_3d_group(noisy_ch, w, group_locs), Len(group_locs)),
                 transform_3d(build_3d_group(guide_ch, w, group_locs), Len(group_locs)),
                 Len(group_locs), params.sigma),
             Len(group_locs))

\* Lines 280-293.  The triple loop calls add(idx, ..) once per patch k and
\* position (dy, dx), at idx = (ly + dy) * w + lx + dx.  PosOf is the position
\* dy * 8 + dx at which patch `loc` reaches cell index, or -1 if it does not
\* (w >= 8, so no two positions of a patch share a cell).
PosOf(index, w, loc) ==
    LET rel == index - (loc[2] * w + loc[1])
    IN IF rel >= 0 /\ rel % w < BLOCK_SIZE /\ rel \div w < BLOCK_SIZE
       THEN (rel \div w) * BLOCK_SIZE + (rel % w)
       ELSE -1

\* the cell `index` of num_acc after the adds of patches k, k+1, ..
RECURSIVE NumCell(_, _, _, _, _, _, _)
NumCell(cell, index, stack, weight, w, group_locs, k) ==
    IF k = Len(group_locs) THEN cell
    ELSE LET pos == PosOf(index, w, group_locs[k + 1])
         IN NumCell(IF pos < 0 THEN cell
                    ELSE fetch_add(cell, NumFixed(stack[k][pos], pos, weight)),
                    index, stack, weight, w, group_locs, k + 1)

\* the cell `index` of den_acc after the adds of patches k, k+1, ..
RECURSIVE DenCell(_, _, _, _, _, _)
DenCell(cell, index, weight, w, group_locs, k) ==
    IF k = Len(group_locs) THEN cell
    ELSE LET pos == PosOf(index, w, group_locs[k + 1])
         IN DenCell(IF pos < 0 THEN cell
                    ELSE fetch_add(cell, DenFixed(WVal(pos, weight))),
                    index, weight, w, group_locs, k + 1)

\* the least and the greatest idx of lines 281-285 over the patches of a group
FirstIdx(w, group_locs) ==
    LET at(k) == group_locs[k][2] * w + group_locs[k][1]
    IN at(CHOOSE k \in DOMAIN group_locs : \A j \in DOMAIN group_locs : at(k) <= at(j))

\* the greatest idx of the first patch only: adds beyond it are dropped
LastIdx_first(w, group_locs) ==
    (group_locs[1][2] + BLOCK_SIZE - 1) * w + group_locs[1][1] + BLOCK_SIZE - 1

LastIdx(w, group_locs) ==
    LET at(k) == (group_locs[k][2] + BLOCK_SIZE - 1) * w + group_locs[k][1] + BLOCK_SIZE - 1
    IN at(CHOOSE k \in DOMAIN group_locs : \A j \in DOMAIN group_locs : at(k) >= at(j))

\* the accumulators of one channel after lines 280-292 for the group.
\* AtomicAccumulator::add drops an index >= data.len(): the cells are
\* 0..len-1; a cell outside first..last is reached by no patch of the group.
AddGroupIn(acc, len, stack, weight, w, group_locs, first, last) ==
    [num |-> Table([index \in 0..(len - 1) |->
                IF index < first \/ index > last THEN acc.num[index]
                ELSE NumCell(acc.num[index], index, stack, weight, w, group_locs, 0)]),
     den |-> Table([index \in 0..(len - 1) |->
                IF index < first \/ index > last THEN acc.den[index]
                ELSE DenCell(acc.den[index], index, weight, w, group_locs, 0)])]

AddGroup(acc, len, stack, weight, w, group_locs) ==
    AddGroupIn(acc, len, stack, weight, w, group_locs,
               FirstIdx(w, group_locs), LastIdx(w, group_locs))

\* ---- run_bm3d_step_joint, before and after the tasks ----
\* (0..n).step_by(STRIDE) as a sequence
StepBy(n) == [i \in 1..((n + STRIDE - 1) \div STRIDE) |-> (i - 1) * STRIDE]

\* lines 216-221: ref_patches in the order pushed
RefPatches(w, h) ==
    LET xs == StepBy(SatSub(w, BLOCK_SIZE))
        ys == StepBy(SatSub(h, BLOCK_SIZE))
    IN [i \in 1..(Len(xs) * Len(ys)) |->
          << xs[((i - 1) % Len(xs)) + 1], ys[((i - 1) \div Len(xs)) + 1] >>]

\* n / d in units of 1/VS for accumulator cells n and d > 0
FracDiv(n, d) ==
    LET a == Abs(n)
        r0 == a % d
        r1 == (r0 * 100) % d
        v == (a \div d) * VS + ((r0 * 100) \div d) * (VS \div 100)
             + RDiv(r1 * (VS \div 100), d)
    IN IF n >= 0 THEN v ELSE -v

\* line 304: `if d > 1e-6 { n / d } else { n }` for n, d = cell / FIXED_POINT_SCALE
FinalValue(n, d) ==
    IF d * 10 > 1 THEN FracDiv(n, d) ELSE RDiv(n, FIXED_POINT_SCALE \div VS)

\* lines 297-308
FinalDivide(nums, dens, count) ==
    [ch \in 0..(NUM_CHANNELS - 1) |->
        Table([i \in 0..(count - 1) |-> FinalValue(nums[ch][i], dens[ch][i])])]

\* ---- bounds of the model ----
\* workers of the thread pool that runs `par_iter().for_each`
MaxThreads == 2

\* ---- inputs ----
\* the 8-bit value of channel c of pixel (x, y) in the source file
Pixel8(pattern, x, y, c) ==
    CASE pattern = "flat" -> 40 + 60 * c
      [] pattern = "ramp" -> 40 + 60 * c + 2 * x
      [] pattern = "noise" -> 100 + (((x * 7 + y * 13 + c * 5) * 37) % 41)
      [] pattern = "edge" -> IF (x + c) % 4 < 2 THEN 0 ELSE 255

\* to_rgb32f of that file: samples k / 255 in units of 1/PS
InputImage(pattern, w, h) ==
    Table([i \in 0..(w * h - 1) |->
        << RDiv(Pixel8(pattern, i % w, i \div w, 0) * PS, 255),
           RDiv(Pixel8(pattern, i % w, i \div w, 1) * PS, 255),
           RDiv(Pixel8(pattern, i % w, i \div w, 2) * PS, 255) >>])

Sizes == { <<4, 4>>, <<7, 15>>, <<15, 7>>, <<8, 8>>, <<9, 9>>, <<15, 9>> }

Patterns == { "flat", "ramp", "edge" }

\* intensities in units of 1/IS, below, inside and above the clamped range
Intensities == { 0, 300, 1500 }

TieOrders == { "kept", "reversed" }

\* ---- state ----
VARIABLES
    pattern,            \* which input image (a name for `image`)
    image,              \* rgb_img_for_denoiser
    width, height,      \* its dimensions
    intensity,          \* the intensity argument
    tieOrder,           \* what the build's unstable sort does with equal keys
    nthreads,           \* workers of the thread pool
    pc,                 \* where denoise_image is
    params,             \* Bm3dParams
    noisy,              \* channels: split_channels(image)
    total_work_units,
    progress_counter,   \* the AtomicUsize
    events,             \* what app_handle.emit("denoise-progress", ..) was given, in order
    guide,              \* the guide argument of the running step
    numerators,         \* per channel, the cells of the AtomicAccumulator
    denominators,
    ref_patches,        \* the reference locations of the running step
    tasks,              \* tasks[s][i]: the for_each closure on ref_patches[i] in step s
    seen,               \* the values fetch_add returned to the tasks
    basic_estimate,     \* the result of step 1
    denoised_channels,  \* the result of step 2
    out_img,            \* out_img_buffer
    xform               \* a stack of patches under the transforms, outside a run

vars == << pattern, image, width, height, intensity, tieOrder, nthreads, pc, params,
           noisy, total_work_units, progress_counter, events, guide, numerators,
           denominators, ref_patches, tasks, seen, basic_estimate,
           denoised_channels, out_img, xform >>

\* what no step of denoise_image changes
inputVars == << pattern, image, width, height, intensity, tieOrder, nthreads, xform >>

NoChannels == [ch \in 0..(NUM_CHANNELS - 1) |-> << >>]

\* no stack is under the transforms
XformIdle ==
    [at |-> "idle", n |-> 0, stack |-> << >>, blk |-> << >>, col |-> << >>,
     coeffs |-> << >>, out |-> << >>]

InitProgram(sz, pat, int, tie, nt) ==
    /\ pattern = pat
    /\ width = sz[1]
    /\ height = sz[2]
    /\ image = InputImage(pat, sz[1], sz[2])
    /\ intensity = int
    /\ tieOrder = tie
    /\ nthreads = nt
    /\ pc = "loaded"
    /\ params = from_intensity(int)
    /\ noisy = NoChannels
    /\ total_work_units = 0
    /\ progress_counter = 0
    /\ events = << >>
    /\ guide = NoChannels
    /\ numerators = NoChannels
    /\ denominators = NoChannels
    /\ ref_patches = << >>
    /\ tasks = << << >>, << >> >>
    /\ seen = {}
    /\ basic_estimate = NoChannels
    /\ denoised_channels = NoChannels
    /\ out_img = << >>

InitWith(sz, pat, int, tie, nt) ==
    InitProgram(sz, pat, int, tie, nt) /\ xform = XformIdle

\* an image of three reference locations, more than MaxThreads
WideInputs == { << <<21, 9>>, "noise", 300, "kept" >> }

Inputs == (Sizes \X Patterns \X Intensities \X TieOrders) \cup WideInputs

Init == \E in \in Inputs : InitWith(in[1], in[2], in[3], in[4], MaxThreads)

\* ---- denoise_image (denoising.rs:68-97) and bm3d_process_joint (155-190) ----
step == IF pc \in {"step1", "tasks1"} THEN 1 ELSE 2

is_step_1 == step = 1

\* lines 77-79
TotalWorkUnits(w, h) ==
    LET patches_x == SatSub(w, BLOCK_SIZE) \div STRIDE + 1
        patches_y == SatSub(h, BLOCK_SIZE) \div STRIDE + 1
    IN (patches_x * patches_y) * 2

\* denoise_image lines 68-82: up to the call of bm3d_process_joint
Prepare ==
    /\ pc = "loaded"
    /\ params' = from_intensity(intensity)
    /\ noisy' = split_channels(image, width, height)
    /\ total_work_units' = TotalWorkUnits(width, height)
    /\ progress_counter' = 0
    /\ events' = Append(events, [msg |-> "Processing (Step 1/2)...", step |-> 0, c |-> 0, pct |-> 0])
    /\ pc' = "step1"
    /\ UNCHANGED << inputVars, guide, numerators, denominators, ref_patches, tasks,
                    seen, basic_estimate, denoised_channels, out_img >>

\* both steps guided by the noisy channels
GuideOfStep_noisy(first, noisy_channels, basic) == noisy_channels

\* the guide argument bm3d_process_joint passes to each step
GuideOfStep(first, noisy_channels, basic) == IF first THEN noisy_channels ELSE basic

\* run_bm3d_step_joint lines 204-221: accumulators and ref_patches
SetupStep ==
    /\ pc \in {"step1", "step2"}
    /\ guide' = GuideOfStep(pc = "step1", noisy, basic_estimate)
    /\ numerators' = [ch \in 0..(NUM_CHANNELS - 1) |-> new(width * height)]
    /\ denominators' = [ch \in 0..(NUM_CHANNELS - 1) |-> new(width * height)]
    /\ ref_patches' = RefPatches(width, height)
    /\ tasks' = [tasks EXCEPT ![step] =
                    [i \in 1..Len(RefPatches(width, height)) |->
                        [st |-> "pending", locs |-> << >>, cands |-> 0, ch |-> 0]]]
    /\ pc' = IF pc = "step1" THEN "tasks1" ELSE "tasks2"
    /\ UNCHANGED << inputVars, params, noisy, total_work_units, progress_counter,
                    events, seen, basic_estimate, denoised_channels, out_img >>

Running == {i \in DOMAIN tasks[step] : tasks[step][i].st = "running"}

\* a load in place of the atomic add
CounterAdd_load(counter) == counter

\* AtomicUsize::fetch_add(1): the counter after the add
CounterAdd(counter) == counter + 1

\* line 225 with the value after the increment in place of the one before
Emits_after(c) == (c + 1) % PROGRESS_EVERY = 0

\* line 225: the closure emits a progress event for the value c it obtained
Emits(c) == c % PROGRESS_EVERY = 0

\* line 227
step_str(first) == IF first THEN "Step 1/2" ELSE "Step 2/2"

\* the task after line 243: group_locs, and cand_count kept for reference
Matched(bm) == [st |-> "running", locs |-> bm.out_buf, cands |-> bm.cand_count, ch |-> 0]

\* the task after the body of the channel loop for channel t.ch
Advanced(t) ==
    [t EXCEPT !.ch = t.ch + 1,
              !.st = IF t.ch + 1 = NUM_CHANNELS THEN "done" ELSE "running"]

\* A worker takes the closure of ref_patches[i].  With one worker the pool runs
\* the items in order; with more, an idle worker may take any item.
\* Lines 224-243: the counter, the progress event and block matching.
TaskStart(i) ==
    /\ pc \in {"tasks1", "tasks2"}
    /\ i \in DOMAIN tasks[step]
    /\ tasks[step][i].st = "pending"
    /\ Cardinality(Running) < nthreads
    /\ nthreads = 1 => \A j \in 1..(i - 1) : tasks[step][j].st = "done"
    /\ progress_counter' = CounterAdd(progress_counter)
    /\ seen' = seen \cup {progress_counter}
    /\ events' = IF Emits(progress_counter)
                 THEN Append(events,
                          [msg |-> step_str(is_step_1),
                           step |-> step,
                           c |-> progress_counter,
                           pct |-> RDiv(progress_counter * 1000, total_work_units)])
                 ELSE events
    /\ \E bm \in {block_matching_joint(guide, width, height, ref_patches[i][1],
                                        ref_patches[i][2], is_step_1, params,
                                        tieOrder)} :
         tasks' = [tasks EXCEPT ![step][i] = Matched(bm)]
    /\ UNCHANGED << inputVars, pc, params, noisy, total_work_units, guide, numerators,
                    denominators, ref_patches, basic_estimate, denoised_channels,
                    out_img >>

\* the channel loop with the filtered reference patch stored back into the
\* noisy channel it was read from
TaskChannel_inplace(i) ==
    /\ pc \in {"tasks1", "tasks2"}
    /\ i \in DOMAIN tasks[step]
    /\ tasks[step][i].st = "running"
    /\ \E t \in {tasks[step][i]} :
         \E f \in {FilterChannel(noisy[t.ch], guide[t.ch], width, t.locs,
                                 is_step_1, params)} :
           \E acc \in {AddGroup([num |-> numerators[t.ch], den |-> denominators[t.ch]],
                                width * height, f.stack, f.weight, width, t.locs)} :
             /\ numerators' = [numerators EXCEPT ![t.ch] = acc.num]
             /\ denominators' = [denominators EXCEPT ![t.ch] = acc.den]
             /\ tasks' = [tasks EXCEPT ![step][i] = Advanced(t)]
             /\ noisy' = [noisy EXCEPT ![t.ch] =
                    Table([k \in 0..(width * height - 1) |->
                        IF PosOf(k, width, t.locs[1]) >= 0
                        THEN f.stack[0][PosOf(k, width, t.locs[1])]
                        ELSE noisy[t.ch][k]])]
    /\ UNCHANGED << inputVars, pc, params, total_work_units, progress_counter,
                    events, guide, ref_patches, seen, basic_estimate,
                    denoised_channels, out_img >>

\* Lines 245-294 for the task's next channel.  The fetch_adds of one channel
\* are one step: each is atomic on its own cell and nothing reads a cell
\* while tasks run.
TaskChannel(i) ==
    /\ pc \in {"tasks1", "tasks2"}
    /\ i \in DOMAIN tasks[step]
    /\ tasks[step][i].st = "running"
    /\ \E t \in {tasks[step][i]} :
         \E f \in {FilterChannel(noisy[t.ch], guide[t.ch], width, t.locs,
                                 is_step_1, params)} :
           \E acc \in {AddGroup([num |-> numerators[t.ch], den |-> denominators[t.ch]],
                                width * height, f.stack, f.weight, width, t.locs)} :
             /\ numerators' = [numerators EXCEPT ![t.ch] = acc.num]
             /\ denominators' = [denominators EXCEPT ![t.ch] = acc.den]
             /\ tasks' = [tasks EXCEPT ![step][i] = Advanced(t)]
    /\ UNCHANGED << inputVars, pc, params, noisy, total_work_units, progress_counter,
                    events, guide, ref_patches, seen, basic_estimate,
                    denoised_channels, out_img >>

\* a for_each that returns at once
Joined_none(ts) == TRUE

\* a join that waits for the precomputed number of tasks of a step
Joined_byTotal(ts) ==
    Cardinality({i \in DOMAIN ts : ts[i].st = "done"}) = total_work_units \div 2

\* for_each returns when the closure has returned for every item
Joined(ts) == \A i \in DOMAIN ts : ts[i].st = "done"

\* run_bm3d_step_joint lines 297-308, and the return into bm3d_process_joint
FinishStep ==
    /\ pc \in {"tasks1", "tasks2"}
    /\ Joined(tasks[step])
    /\ IF pc = "tasks1"
       THEN /\ basic_estimate' = FinalDivide(numerators, denominators, width * height)
            /\ pc' = "step2"
            /\ UNCHANGED denoised_channels
       ELSE /\ denoised_channels' = FinalDivide(numerators, denominators, width * height)
            /\ pc' = "merge"
            /\ UNCHANGED basic_estimate
    /\ UNCHANGED << inputVars, params, noisy, total_work_units, progress_counter,
                    events, guide, numerators, denominators, ref_patches, tasks, seen,
                    out_img >>

\* denoise_image lines 95-97
Merge ==
    /\ pc = "merge"
    /\ events' = Append(events, [msg |-> "Finalizing data...", step |-> 0, c |-> 0, pct |-> 0])
    /\ out_img' = merge_channels(denoised_channels, width, height)
    /\ pc' = "done"
    /\ UNCHANGED << inputVars, params, noisy, total_work_units, progress_counter,
                    guide, numerators, denominators, ref_patches, tasks, seen,
                    basic_estimate, denoised_channels >>

Next ==
    \/ Prepare
    \/ SetupStep
    \/ \E i \in 1..Len(ref_patches) : TaskStart(i)
    \/ \E i \in 1..Len(ref_patches) : TaskChannel(i)
    \/ FinishStep
    \/ Merge

Spec == Init /\ [][Next]_vars

\* A uniform-colour image of 32 x 32, run on a pool of one worker
UniformSizes == { <<32, 32>> }

InitUniform ==
    \E sz \in UniformSizes, tie \in TieOrders : InitWith(sz, "flat", 300, tie, 1)

SpecUniform == InitUniform /\ [][Next]_vars

\* A tall image of 101 reference locations, so that the counter passes 200
\* in step 2; run on a pool of one worker
LongSizes == { <<9, 609>> }

InitLong == \E sz \in LongSizes : InitWith(sz, "noise", 0, "kept", 1)

SpecLong == InitLong /\ [][Next]_vars

\* ---- the transforms applied to a stack (denoising.rs:552-668) ----
\* sample i of patch k of a stack of integer samples in 0..255
StackValue(pat, seed, k, i) ==
    CASE pat = "flat" -> 200 + seed
      [] pat = "ramp" -> 3 * (i % 8) + 5 * (i \div 8) + 7 * k + seed
      [] pat = "edge" -> IF ((i % 8) + (i \div 8) + k + seed) % 4 < 2 THEN 255 ELSE 0
      [] pat = "noise" -> (i * 37 + k * 101 + seed * 53 + ((i * i * 7) % 256)) % 256

StackOf(pat, seed, n) ==
    Table([k \in 0..(n - 1) |-> [i \in 0..63 |-> FromInt(StackValue(pat, seed, k, i))]])

\* << group size, pattern, seed >>: every valid group size, the small ones
\* with every pattern
StackInputs ==
    ({1} \X {"flat", "ramp", "edge", "noise"} \X {0, 1})
    \cup ({2} \X {"flat", "ramp", "edge", "noise"} \X {0})
    \cup ({4} \X {"edge", "noise"} \X {0})
    \cup ({8, 16} \X {"noise"} \X {0})

InitTransform ==
    /\ InitProgram(<<4, 4>>, "flat", 0, "kept", 1)
    /\ \E in \in StackInputs :
         xform = [XformIdle EXCEPT !.at = "start", !.n = in[1],
                                   !.stack = StackOf(in[2], in[3], in[1])]

progVars == << pattern, image, width, height, intensity, tieOrder, nthreads, pc, params,
               noisy, total_work_units, progress_counter, events, guide, numerators,
               denominators, ref_patches, tasks, seen, basic_estimate,
               denoised_channels, out_img >>

\* the vector of the first samples of the patches of the stack
FirstColumn(stack, n) == Table([k \in 0..(n - 1) |-> stack[k][0]])

\* transpose_8x8 on the first patch
TransposeOnce ==
    /\ xform.at = "start"
    /\ xform' = [xform EXCEPT !.at = "transposed", !.blk = transpose_8x8(xform.stack[0])]
    /\ UNCHANGED progVars

\* transpose_8x8 on the result
TransposeTwice ==
    /\ xform.at = "transposed"
    /\ xform' = [xform EXCEPT !.at = "transposed2", !.blk = transpose_8x8(xform.blk)]
    /\ UNCHANGED progVars

\* walsh_hadamard_1d on a vector of n samples
HadamardOnce ==
    /\ xform.at = "transposed2"
    /\ xform' = [xform EXCEPT !.at = "hadamard",
                              !.col = walsh_hadamard_1d_f32(FirstColumn(xform.stack, xform.n),
                                                            xform.n)]
    /\ UNCHANGED progVars

\* walsh_hadamard_1d on the result
HadamardTwice ==
    /\ xform.at = "hadamard"
    /\ xform' = [xform EXCEPT !.at = "hadamard2",
                              !.col = walsh_hadamard_1d_f32(xform.col, xform.n)]
    /\ UNCHANGED progVars

\* transform_3d on the stack
Forward ==
    /\ xform.at = "hadamard2"
    /\ xform' = [xform EXCEPT !.at = "forward",
                              !.coeffs = transform_3d_f32(xform.stack, xform.n)]
    /\ UNCHANGED progVars

\* inverse_transform_3d on the coefficients
Inverse ==
    /\ xform.at = "forward"
    /\ xform' = [xform EXCEPT !.at = "inverse",
                              !.out = inverse_transform_3d_f32(xform.coeffs, xform.n)]
    /\ UNCHANGED progVars

NextTransform ==
    \/ TransposeOnce
    \/ TransposeTwice
    \/ HadamardOnce
    \/ HadamardTwice
    \/ Forward
    \/ Inverse

SpecTransform == InitTransform /\ [][NextTransform]_vars

\* ---- hard_threshold and wiener_filter applied to a stack (denoising.rs:262-272) ----
\* coefficient i of patch k of a stack, in units of 1/VS
CoefValue(pat, k, i) ==
    CASE pat = "zeros" -> 0
      [] pat = "zero_first" ->
           IF k = 0 /\ i = 0 THEN 0 ELSE (((i * 37 + k * 101) % 9) - 4) * 30000
      [] pat = "small_first" ->
           IF k = 0 /\ i = 0 THEN 100 ELSE (((i * 53 + k * 7) % 11) - 5) * 20000
      [] pat = "dc" ->
           IF k = 0 /\ i = 0 THEN 816000
           ELSE IF i = 0 THEN 130 * k
           ELSE (((i * 29 + k * 13) % 13) - 6) * 15000

CoefStack(pat, n) == Table([k \in 0..(n - 1) |-> [i \in 0..63 |-> CoefValue(pat, k, i)]])

\* << group size, pattern of the noisy stack, pattern of the guide stack, intensity >>
FilterInputs ==
    {1, 2, 4, 8} \X { <<"zeros", "dc">>, <<"zero_first", "small_first">>,
                   <<"small_first", "zeros">>, <<"dc", "zero_first">> }
              \X Intensities

InitFilter ==
    /\ InitProgram(<<4, 4>>, "flat", 0, "kept", 1)
    /\ \E in \in FilterInputs :
         xform = [at |-> "coeffs", n |-> in[1],
                  stack |-> CoefStack(in[2][1], in[1]),
                  guide |-> CoefStack(in[2][2], in[1]),
                  th |-> RDiv(from_intensity(in[3]).hard_th_lambda
                              * from_intensity(in[3]).sigma, VS),
                  sigma |-> from_intensity(in[3]).sigma,
                  kept |-> << >>, weight |-> 0, filtered |-> << >>, wiener_weight |-> 0]

\* lines 263-270: hard_threshold on the stack and the weight of the group
ApplyHardThreshold ==
    /\ xform.at = "coeffs"
    /\ \E ht \in {hard_threshold(xform.stack, xform.n, xform.th)} :
         xform' = [xform EXCEPT !.at = "thresholded",
                                !.kept = ht.stack,
                                !.weight = FilterStep1(ht, xform.n).weight]
    /\ UNCHANGED progVars

\* line 272: wiener_filter on the stack, with the guide stack
ApplyWiener ==
    /\ xform.at = "thresholded"
    /\ \E wf \in {wiener_filter(xform.stack, xform.guide, xform.n, xform.sigma)} :
         xform' = [xform EXCEPT !.at = "wiener",
                                !.filtered = wf.noisy,
                                !.wiener_weight = wf.weight]
    /\ UNCHANGED progVars

NextFilter == ApplyHardThreshold \/ ApplyWiener

SpecFilter == InitFilter /\ [][NextFilter]_vars

\* ---- block matching on images of any admitted size ----
\* split_channels of the RGB f32 image of the pattern, sample by sample: the
\* channels of an image too large to list
ChannelsOf(pat, w, h) ==
    [c \in 0..2 |->
        [i \in 0..(w * h - 1) |->
            RDiv(RDiv(Pixel8(pat, i % w, i \div w, c) * PS, 255) * 255, PS \div VS)]]

\* image sizes, two of them with block positions above 65,535
MatchSizes == { <<9, 9>>, <<15, 9>>, <<65560, 9>>, <<9, 65560>> }

\* reference positions of the grid of lines 216-221, the first ones and
\* those around 65,536
GridNear == { 0, 6, 65532, 65538, 65544 }

MatchRefs(sz) ==
    {ref \in GridNear \X GridNear :
        ref[1] < SatSub(sz[1], BLOCK_SIZE) /\ ref[2] < SatSub(sz[2], BLOCK_SIZE)}

\* the patterns whose samples stay 8-bit at every x
MatchPatterns == { "flat", "edge", "noise" }

MatchInputs ==
    {in \in MatchSizes \X (GridNear \X GridNear) \X MatchPatterns
            \X BOOLEAN \X TieOrders : in[2] \in MatchRefs(in[1])}

InitMatch ==
    /\ InitProgram(<<4, 4>>, "flat", 300, "kept", 1)
    /\ \E in \in MatchInputs :
         xform = [at |-> "ref", w |-> in[1][1], h |-> in[1][2],
                  rx |-> in[2][1], ry |-> in[2][2], pat |-> in[3],
                  is_step_1 |-> in[4], tie |-> in[5],
                  group_size |-> 0, out_buf |-> << >>, cand_count |-> 0]

\* the call of line 232 for the reference (rx, ry)
ApplyMatch ==
    /\ xform.at = "ref"
    /\ \E bm \in {block_matching_joint(ChannelsOf(xform.pat, xform.w, xform.h),
                                        xform.w, xform.h, xform.rx, xform.ry,
                                        xform.is_step_1, params, xform.tie)} :
         xform' = [xform EXCEPT !.at = "matched",
                                !.group_size = bm.group_size,
                                !.out_buf = bm.out_buf,
                                !.cand_count = bm.cand_count]
    /\ UNCHANGED progVars

NextMatch == ApplyMatch

SpecMatch == InitMatch /\ [][NextMatch]_vars

\* ---- the progress counter and sink under the pool's interleavings ----
\* The closure of lines 223-295 in two steps per task: the fetch_add of line
\* 224, which is atomic, and the rest of the closure from line 225 on, which
\* is not atomic with it.  The rest emits for the value obtained; the block
\* matching and the channel loop that follow touch neither the counter nor
\* the sink.  A worker takes the next reference location when it is idle.
ProgressSizes == { <<9, 9>>, <<15, 15>>, <<9, 1214>> }

ProgressIdle == [at |-> "idle", c |-> 0]

InitProgress ==
    /\ InitProgram(<<4, 4>>, "flat", 300, "kept", MaxThreads)
    /\ \E sz \in ProgressSizes :
         xform = [at |-> "step1", w |-> sz[1], h |-> sz[2],
                  total_work |-> TotalWorkUnits(sz[1], sz[2]),
                  counter |-> 0,
                  pending |-> Len(RefPatches(sz[1], sz[2])),
                  workers |-> [t \in 1..MaxThreads |-> ProgressIdle],
                  events |-> << >>]

\* line 224
ClosureObtain(t) ==
    /\ xform.at \in {"step1", "step2"}
    /\ xform.workers[t].at = "idle"
    /\ xform.pending > 0
    /\ xform' = [xform EXCEPT !.pending = @ - 1,
                              !.counter = CounterAdd(@),
                              !.workers[t] = [at |-> "obtained", c |-> xform.counter]]
    /\ UNCHANGED progVars

\* lines 225-295
ClosureRest(t) ==
    /\ xform.at \in {"step1", "step2"}
    /\ xform.workers[t].at = "obtained"
    /\ xform' = [xform EXCEPT
            !.events = IF Emits(xform.workers[t].c)
                       THEN Append(@, [msg |-> step_str(xform.at = "step1"),
                                       c |-> xform.workers[t].c,
                                       pct |-> RDiv(xform.workers[t].c * 1000,
                                                    xform.total_work)])
                       ELSE @,
            !.workers[t] = ProgressIdle]
    /\ UNCHANGED progVars

\* for_each returns when every task has run; bm3d_process_joint then starts
\* step 2 on the same counter, and returns after it
ProgressJoin ==
    /\ xform.at \in {"step1", "step2"}
    /\ xform.pending = 0
    /\ \A t \in 1..MaxThreads : xform.workers[t].at = "idle"
    /\ xform' = [xform EXCEPT
            !.at = IF xform.at = "step1" THEN "step2" ELSE "end",
            !.pending = IF xform.at = "step1"
                        THEN Len(RefPatches(xform.w, xform.h)) ELSE 0]
    /\ UNCHANGED progVars

NextProgress ==
    \/ \E t \in 1..MaxThreads : ClosureObtain(t)
    \/ \E t \in 1..MaxThreads : ClosureRest(t)
    \/ ProgressJoin

SpecProgress == InitProgress /\ [][NextProgress]_vars

\* ---- apply_denoising / save_denoised_image (main.rs:2688-2759) ----
\* calls of each command in a run of the model
MaxCalls == 3
MaxSaves == 2

\* paths the commands are called with; the last is of no file
ExistingPaths == { "a.png", "b.raf" }
MissingPaths == { "gone.png" }

is_raw_file(path) == path = "b.raf"

None == [some |-> FALSE]
Some(v) == [some |-> TRUE, value |-> v]

\* denoise_image lines 49-52 and on: Err for a path of no file, else the
\* image of this call
denoise_image(path_str, call) ==
    IF path_str \in MissingPaths THEN [ok |-> FALSE, err |-> "File not found"]
    ELSE [ok |-> TRUE, image |-> [path |-> path_str, call |-> call]]

NoImageError == "No denoised image found in memory"

\* AppState.denoise_result is None at start (main.rs:3138)
InitSave ==
    /\ InitProgram(<<4, 4>>, "flat", 300, "kept", 1)
    /\ xform = [at |-> "app", denoise_result |-> None,
                calls |-> 0, saves |-> 0,
                last_ok |-> FALSE, taken |-> FALSE,
                denoise_errors |-> 0, files |-> << >>, returned |-> "none"]

\* apply_denoising: the result is stored on Ok; on Err the event is emitted
\* and the stored value is left as it was
apply_denoising(path) ==
    /\ xform.at = "app"
    /\ xform.calls < MaxCalls
    /\ \E r \in {denoise_image(path, xform.calls + 1)} :
         xform' = [xform EXCEPT
            !.calls = @ + 1,
            !.last_ok = r.ok,
            !.denoise_result = IF r.ok THEN Some(r.image) ELSE @,
            !.taken = IF r.ok THEN FALSE ELSE @,
            !.denoise_errors = IF r.ok THEN @ ELSE @ + 1,
            !.returned = "Ok"]
    /\ UNCHANGED progVars

\* save_denoised_image: take() empties the stored value; the file is written
\* unless `save` fails
save_denoised_image(original_path_str, io_ok) ==
    /\ xform.at = "app"
    /\ xform.saves < MaxSaves
    /\ xform' = [xform EXCEPT
            !.saves = @ + 1,
            !.denoise_result = None,
            !.taken = IF xform.denoise_result.some THEN TRUE ELSE @,
            !.files = IF xform.denoise_result.some /\ io_ok
                      THEN Append(@, [name |-> IF is_raw_file(original_path_str)
                                               THEN "_Denoised.tiff" ELSE "_Denoised.png",
                                      image |-> xform.denoise_result.value])
                      ELSE @,
            !.returned = IF ~xform.denoise_result.some THEN NoImageError
                         ELSE IF io_ok THEN "Ok" ELSE "Failed to save image"]
    /\ UNCHANGED progVars

NextSave ==
    \/ \E path \in ExistingPaths \cup MissingPaths : apply_denoising(path)
    \/ \E path \in ExistingPaths, io_ok \in BOOLEAN : save_denoised_image(path, io_ok)

SpecSave == InitSave /\ [][NextSave]_vars

\* ---- properties ----
Started(s) == {i \in DOMAIN tasks[s] : tasks[s][i].st # "pending"}

AllDone(s) == \A i \in DOMAIN tasks[s] : tasks[s][i].st = "done"

\* every task of the running step has returned
PassComplete == pc \in {"tasks1", "tasks2"} /\ AllDone(step)

\* the number of reference locations of the image
GridCount == Len(RefPatches(width, height))

\* What the tasks of the running step add to cell `index` of channel ch, as a
\* plain sum over the reference locations in the order of ref_patches and the
\* patches of their groups: fs[i] is the filtered stack and weight of task i.
RECURSIVE SumPatches(_, _, _, _, _)
SumPatches(f, locs, index, isNum, k) ==
    IF k = 0 THEN 0
    ELSE SumPatches(f, locs, index, isNum, k - 1)
         + (IF PosOf(index, width, locs[k]) < 0 THEN 0
            ELSE IF isNum
                 THEN NumFixed(f.stack[k - 1][PosOf(index, width, locs[k])],
                               PosOf(index, width, locs[k]), f.weight)
                 ELSE DenFixed(WVal(PosOf(index, width, locs[k]), f.weight)))

RECURSIVE SumTasks(_, _, _, _, _)
SumTasks(fs, ls, index, isNum, i) ==
    IF i = 0 THEN 0
    ELSE SumTasks(fs, ls, index, isNum, i - 1)
         + SumPatches(fs[i], ls[i], index, isNum, Len(ls[i]))

\* the group of every reference location, from the inputs of the step alone
GroupsOfStep ==
    Table([i \in 1..Len(ref_patches) |->
        block_matching_joint(guide, width, height, ref_patches[i][1], ref_patches[i][2],
                             is_step_1, params, tieOrder).out_buf])

FilteredOfStep(ls, ch) ==
    Table([i \in 1..Len(ref_patches) |->
        FilterChannel(noisy[ch], guide[ch], width, ls[i], is_step_1, params)])

SumsMatch(ls, fs, ch) ==
    \A index \in 0..(width * height - 1) :
        /\ numerators[ch][index] = SumTasks(fs, ls, index, TRUE, Len(ls))
        /\ denominators[ch][index] = SumTasks(fs, ls, index, FALSE, Len(ls))

\* C1: when all tasks of a step have returned, every numerator and denominator
\* cell holds the sum of the contributions of all reference locations, a value
\* fixed by the inputs of the step and not by the order in which tasks ran.
C1_OrderIndependentSums ==
    PassComplete =>
        \A ch \in 0..(NUM_CHANNELS - 1) :
            SumsMatch(GroupsOfStep, FilteredOfStep(GroupsOfStep, ch), ch)

\* C1 witness: a step of at least two tasks is complete and some cell of
\* channel 0 received contributions
C1_Witness ==
    /\ PassComplete
    /\ Len(ref_patches) >= 2
    /\ \E index \in DOMAIN numerators[0] : numerators[0][index] > 0

\* C2: the result of a step is produced only when every task of the step has
\* returned, from the accumulators as they then are, and producing it does
\* not write them.
C2_DivideAfterJoin ==
    [][(basic_estimate' # basic_estimate \/ denoised_channels' # denoised_channels) =>
          /\ \A i \in DOMAIN tasks[step] : tasks[step][i].st = "done"
          /\ numerators' = numerators /\ denominators' = denominators
          /\ IF pc = "tasks1"
             THEN basic_estimate' = FinalDivide(numerators, denominators, width * height)
             ELSE denoised_channels' = FinalDivide(numerators, denominators,
                                                   width * height)]_vars

\* C2 witness: the result of step 1 exists after a step of at least two tasks
C2_Witness ==
    /\ pc = "step2"
    /\ Len(tasks[1]) >= 2
    /\ basic_estimate # NoChannels

\* C3: once a task of step 2 has started, every task of step 1 has returned,
\* the basic estimate is complete, the guide is the basic estimate and the
\* noisy channels are those split from the input image.
C3_PassesSequential ==
    Started(2) # {} =>
        /\ pc \in {"tasks2", "merge", "done"}
        /\ AllDone(1)
        /\ \A ch \in 0..(NUM_CHANNELS - 1) :
              DOMAIN basic_estimate[ch] = 0..(width * height - 1)
        /\ guide = basic_estimate
        /\ noisy = split_channels(image, width, height)

\* C3 witness: a task of step 2 is running and the basic estimate differs
\* from the noisy channels
C3_Witness ==
    /\ pc = "tasks2"
    /\ \E i \in DOMAIN tasks[2] : tasks[2][i].st = "running"
    /\ Len(tasks[1]) >= 2
    /\ basic_estimate # noisy

\* the largest power of two not above m, for 1 <= m <= 31
LargestPowerOfTwo(m) == CHOOSE q \in {1, 2, 4, 8, 16} : q <= m /\ m < 2 * q

\* C4: every group has 1, 2, 4, 8 or 16 locations: the largest power of two
\* not above min(16, candidates collected)
C4_GroupSizePowerOfTwo ==
    \A s \in {1, 2} : \A i \in Started(s) :
        /\ Len(tasks[s][i].locs) \in {1, 2, 4, 8, 16}
        /\ Len(tasks[s][i].locs) = LargestPowerOfTwo(Min(16, tasks[s][i].cands))

\* C4 witness: a group cut down from a candidate count that is no power of two
C4_Witness ==
    \E s \in {1, 2} : \E i \in Started(s) :
        tasks[s][i].cands \notin {1, 2, 4, 8, 16} /\ Len(tasks[s][i].locs) = 8

\* C5: the first location of every group is its reference location
C5_ReferenceFirst ==
    \A s \in {1, 2} : \A i \in Started(s) : tasks[s][i].locs[1] = ref_patches[i]

\* some patch of some group of step s reaches cell `index`
Covered(s, index) ==
    \E i \in DOMAIN tasks[s] : \E k \in 1..Len(tasks[s][i].locs) :
        PosOf(index, width, tasks[s][i].locs[k]) >= 0

\* C6: after a step, the denominator of every cell that an aggregated patch
\* covers is positive
C6_WeightConservation ==
    PassComplete =>
        \A ch \in 0..(NUM_CHANNELS - 1) : \A index \in 0..(width * height - 1) :
            Covered(step, index) => denominators[ch][index] > 0

\* C7: an image narrower or shorter than 8 comes out as it went in
C7_SmallImagePassThrough ==
    (pc = "done" /\ (width < BLOCK_SIZE \/ height < BLOCK_SIZE)) => out_img = image

IsUniform(img) == \A i \in DOMAIN img : img[i] = img[0]

\* C8: a uniform image of at least 32 x 32 comes out within 1 unit of the
\* 0..255 scale of what went in, at every pixel
C8_UniformInvariance ==
    (pc = "done" /\ width >= 32 /\ height >= 32 /\ IsUniform(image)) =>
        \A i \in DOMAIN image : \A c \in 1..3 :
            Abs(out_img[i][c] - image[i][c]) <= PS \div 255

\* C9: each step yields width * height values per channel, and the output
\* image has the input's dimensions, three samples per pixel, each in [0, 1]
C9_OutputShapeAndRange ==
    /\ pc \in {"step2", "tasks2", "merge", "done"} =>
          \A ch \in 0..(NUM_CHANNELS - 1) :
              DOMAIN basic_estimate[ch] = 0..(width * height - 1)
    /\ pc \in {"merge", "done"} =>
          \A ch \in 0..(NUM_CHANNELS - 1) :
              DOMAIN denoised_channels[ch] = 0..(width * height - 1)
    /\ pc = "done" =>
          /\ DOMAIN out_img = 0..(width * height - 1)
          /\ \A i \in DOMAIN out_img :
                /\ Len(out_img[i]) = 3
                /\ \A c \in 1..3 : out_img[i][c] >= 0 /\ out_img[i][c] <= PS

\* C9 witness: a finished run in which step 2 produced a value outside
\* [0, 255], which the merge clamped
C9_Witness ==
    /\ pc = "done"
    /\ width * height > 0
    /\ \E ch \in 0..(NUM_CHANNELS - 1) : \E i \in DOMAIN denoised_channels[ch] :
          denoised_channels[ch][i] < 0 \/ denoised_channels[ch][i] > 255 * VS

\* C10: the counter counts the tasks started in both steps, each task saw a
\* different value, and the counter is G after step 1 and 2 * G after step 2
C10_CounterOncePerTask ==
    /\ progress_counter = Cardinality(Started(1)) + Cardinality(Started(2))
    /\ seen = 0..(progress_counter - 1)
    /\ pc \in {"step2", "tasks2"} => progress_counter >= GridCount
    /\ pc = "step2" => progress_counter = GridCount
    /\ pc \in {"merge", "done"} => progress_counter = 2 * GridCount

\* C10 witness: both steps of at least two tasks each are over
C10_Witness ==
    pc = "done" /\ GridCount >= 2 /\ progress_counter = 2 * GridCount

\* the tasks run so far, over both steps
TasksExecuted == Cardinality(Started(1)) + Cardinality(Started(2))

\* C11: at the end of a run the precomputed total of the progress percentage
\* equals the number of tasks that ran over both steps
C11_TotalMatchesTasks ==
    pc \in {"merge", "done"} => total_work_units = TasksExecuted

\* the intensity clamped to [0.001, 1.0], in thousandths
ClampedIntensity ==
    IF intensity < 1 THEN 1 ELSE IF intensity > 1000 THEN 1000 ELSE intensity

\* C16: the parameters are those of the intensity clamped to [0.001, 1.0]:
\* sigma = 80 v, hard_th_lambda = 2 + 2.5 v (to the nearest thousandth),
\* max_dist_hard = 3000 + 20000 v, in every state of both steps
C16_ParamsFromClampedIntensity ==
    /\ params.sigma = 80 * ClampedIntensity
    /\ Abs(2 * params.hard_th_lambda - (4000 + 5 * ClampedIntensity)) <= 1
    /\ params.max_dist_hard = 300000 + 2000 * ClampedIntensity
    /\ params = from_intensity(ClampedIntensity)

\* C16 witness: a task of step 2 has run with an intensity below 0.001
C16_Witness ==
    /\ pc = "tasks2"
    /\ intensity < 1
    /\ Started(2) # {}
    /\ params.sigma = 80

\* the locations (x, y) with x and y multiples of 6, x <= w - 8, y <= h - 8
GridOf(w, h) ==
    {loc \in (0..w) \X (0..h) :
        /\ loc[1] % 6 = 0 /\ loc[2] % 6 = 0
        /\ loc[1] <= w - 8 /\ loc[2] <= h - 8}

\* C17: the reference locations of a step are the locations of GridOf, none
\* exactly when the image is narrower or shorter than 8
C17_GridIsStrideLattice ==
    pc \in {"tasks1", "tasks2"} =>
        /\ {ref_patches[i] : i \in DOMAIN ref_patches} = GridOf(width, height)
        /\ (ref_patches = << >>) <=> (width < 8 \/ height < 8)

\* the progress events emitted from tasks, in the order emitted; step is the
\* step of the emitting task
TaskEvents == SelectSeq(events, LAMBDA e : e.step # 0)

StagesLeft ==
    CASE pc = "loaded" -> 6
      [] pc = "step1"  -> 5
      [] pc = "tasks1" -> 4
      [] pc = "step2"  -> 3
      [] pc = "tasks2" -> 2
      [] pc = "merge"  -> 1
      [] OTHER         -> 0

\* the closure steps the tasks of step s still have to take: the start and
\* one step per channel
WorkLeft(s) ==
    (NUM_CHANNELS + 1) * Cardinality({i \in DOMAIN tasks[s] : tasks[s][i].st = "pending"})
    + Cardinality({<<i, c>> \in (DOMAIN tasks[s]) \X (1..NUM_CHANNELS) :
                      tasks[s][i].st = "running" /\ tasks[s][i].ch < c})

\* a bound on the steps a run can still take
Rank ==
    StagesLeft * ((NUM_CHANNELS + 1) * GridCount + 1)
    + (IF pc \in {"tasks1", "tasks2"} THEN WorkLeft(step) ELSE 0)

\* some step of the program can be taken: the guards of Prepare, SetupStep,
\* TaskStart, TaskChannel, FinishStep and Merge
CanStep ==
    \/ pc \in {"loaded", "step1", "step2", "merge"}
    \/ /\ pc \in {"tasks1", "tasks2"}
       /\ \/ \E i \in DOMAIN tasks[step] : tasks[step][i].st = "running"
          \/ \E i \in DOMAIN tasks[step] :
               /\ tasks[step][i].st = "pending"
               /\ Cardinality(Running) < nthreads
               /\ nthreads = 1 => \A j \in 1..(i - 1) : tasks[step][j].st = "done"
          \/ Joined(tasks[step])

\* C13: the run always terminates and cannot stop before the end: every step
\* lowers a non-negative bound on the steps left, so no run takes steps
\* forever, and in every state before the end some step can be taken, each
\* task by itself and the join once the tasks are done; a fairly scheduled
\* run therefore completes step 1, step 2 and the merge
C13_TerminatesNoDeadlock ==
    /\ [][Rank' < Rank]_vars
    /\ [](Rank >= 0 /\ (Rank = 0 <=> pc = "done"))
    /\ [](pc # "done" => CanStep)

\* C13 witness: a finished run of three reference locations on two workers,
\* all tasks of both steps done
C13_Witness ==
    /\ pc = "done"
    /\ Len(tasks[1]) = 3 /\ Len(tasks[2]) = 3
    /\ AllDone(1) /\ AllDone(2)
    /\ nthreads < Len(tasks[1])

\* C14: a task changes neither the noisy channels nor the guide channels, nor
\* anything else but the accumulators and the progress counter (with the
\* task's own position and the events it emits); the guide of step 1 is the
\* noisy input and the guide of step 2 the basic estimate from the start to
\* the end of the step, and the noisy channels are the split input image
\* from before step 1 until after step 2
C14_InputsReadOnly ==
    /\ [][(pc \in {"tasks1", "tasks2"} /\ pc' = pc) =>
            /\ noisy' = noisy
            /\ guide' = guide
            /\ UNCHANGED << inputVars, params, total_work_units, ref_patches,
                            basic_estimate, denoised_channels, out_img >>]_vars
    /\ [](pc # "loaded" => noisy = split_channels(image, width, height))
    /\ [](pc = "tasks1" => guide = noisy)
    /\ [](pc = "tasks2" => guide = basic_estimate)

\* C14 witness: step 2 has run its tasks to the end on the noisy channels
\* split from the image, and the estimate it accumulated differs from them
C14_Witness ==
    /\ pc = "merge"
    /\ Len(tasks[2]) >= 1
    /\ AllDone(2)
    /\ noisy = split_channels(image, width, height)
    /\ denoised_channels # noisy
    /\ basic_estimate # noisy

\* the indices img[(y + dy) * w + x + dx] that extract_patch, compute_ssd_flat
\* and build_3d_group read for the patch at (x, y) are indices of the channel
\* and stay in the rows y .. y + 7
PatchInside(w, h, x, y) ==
    /\ 0 <= x /\ x + BLOCK_SIZE - 1 <= w - 1
    /\ 0 <= y /\ y + BLOCK_SIZE - 1 <= h - 1
    /\ \A i \in 0..(BLOCK_AREA - 1) :
         (y + (i \div BLOCK_SIZE)) * w + x + (i % BLOCK_SIZE) \in 0..(w * h - 1)

\* the square of half-width 9 around (rx, ry), clamped to the block positions
ClampedSquare(w, h, rx, ry) ==
    {loc \in ((rx - 9)..(rx + 9)) \X ((ry - 9)..(ry + 9)) :
        /\ 0 <= loc[1] /\ loc[1] <= w - 8
        /\ 0 <= loc[2] /\ loc[2] <= h - 8}

\* C20: for every reference location of the image the locations the loops of
\* block matching visit are those of the square of half-width 9 around it
\* clamped to 0 <= x <= width - 8 and 0 <= y <= height - 8, and the patch
\* read at each of them, at the reference and at every location of a
\* returned group lies inside the channel
C20_WindowInBounds ==
    pc \in {"tasks1", "tasks2"} =>
        /\ \A i \in DOMAIN ref_patches :
             /\ PatchInside(width, height, ref_patches[i][1], ref_patches[i][2])
             /\ \A loc \in {SearchWindow(width, height, ref_patches[i][1], ref_patches[i][2])[k] :
                              k \in DOMAIN SearchWindow(width, height, ref_patches[i][1],
                                                        ref_patches[i][2])} :
                  /\ loc \in ClampedSquare(width, height, ref_patches[i][1], ref_patches[i][2])
                  /\ PatchInside(width, height, loc[1], loc[2])
             /\ Len(SearchWindow(width, height, ref_patches[i][1], ref_patches[i][2]))
                  = Cardinality(ClampedSquare(width, height, ref_patches[i][1],
                                              ref_patches[i][2]))
        /\ \A i \in Started(step) : \A k \in DOMAIN tasks[step][i].locs :
             PatchInside(width, height, tasks[step][i].locs[k][1], tasks[step][i].locs[k][2])

\* C20 witness: a task whose window the right border of the image cuts has
\* matched a patch that ends in the last column
C20_Witness ==
    /\ pc \in {"tasks1", "tasks2"}
    /\ width >= 9 /\ height >= 9
    /\ \E i \in Started(step) :
         /\ ref_patches[i][1] + 9 > width - 8
         /\ \E k \in DOMAIN tasks[step][i].locs :
              /\ tasks[step][i].locs[k][1] = width - 8
              /\ tasks[step][i].locs[k] # ref_patches[i]

\* candidates[0..cand_count] of the task of ref_patches[i] before the sort:
\* the reference and the stored matches with their distances, in scan order
CollectedOf(i) ==
    Candidates(
        SelectSeq(ScanWindow(guide, width, ref_patches[i][1], ref_patches[i][2],
                             SearchWindow(width, height, ref_patches[i][1], ref_patches[i][2]),
                             extract_patch(guide[0], width, ref_patches[i][1], ref_patches[i][2]),
                             extract_patch(guide[1], width, ref_patches[i][1], ref_patches[i][2]),
                             extract_patch(guide[2], width, ref_patches[i][1], ref_patches[i][2]),
                             Threshold(is_step_1, params)),
                  LAMBDA m : m.dist >= 0),
        ref_patches[i][1], ref_patches[i][2])

\* the distance stored with location loc
DistOf(collected, loc) ==
    collected[CHOOSE j \in DOMAIN collected :
                 << collected[j].x, collected[j].y >> = loc].dist

\* the group `locs` lists collected candidates in non-decreasing distance and
\* no candidate left out is strictly nearer than one of the group
SmallestInOrder(collected, locs) ==
    /\ \A k \in DOMAIN locs :
         \E j \in DOMAIN collected : << collected[j].x, collected[j].y >> = locs[k]
    /\ \A k \in DOMAIN locs : \A m \in DOMAIN locs :
         k < m => /\ DistOf(collected, locs[k]) <= DistOf(collected, locs[m])
                  /\ locs[k] # locs[m]
    /\ \A j \in DOMAIN collected :
         (\A k \in DOMAIN locs : locs[k] # << collected[j].x, collected[j].y >>)
            => \A k \in DOMAIN locs : DistOf(collected, locs[k]) <= collected[j].dist

\* C19: the group block matching has just returned to a task lists its
\* entries in non-decreasing order of distance, and they are candidates of
\* smallest distance among all collected: none left out is strictly nearer
\* than one that was kept
C19_GroupSortedSmallest ==
    pc \in {"tasks1", "tasks2"} =>
        \A i \in Started(step) :
            tasks[step][i].ch = 0 =>
                /\ tasks[step][i].cands = Len(CollectedOf(i))
                /\ SmallestInOrder(CollectedOf(i), tasks[step][i].locs)

\* C19 witness: a task holds a group of fewer entries than were collected,
\* of more than one distance, and the scan had stored a farther candidate
\* before a nearer one
C19_Witness ==
    /\ pc \in {"tasks1", "tasks2"}
    /\ \E i \in Started(step) :
         /\ tasks[step][i].ch = 0
         /\ tasks[step][i].st = "running"
         /\ Len(tasks[step][i].locs) < tasks[step][i].cands
         /\ \E j \in DOMAIN CollectedOf(i) : \E m \in DOMAIN CollectedOf(i) :
              j < m /\ CollectedOf(i)[j].dist > CollectedOf(i)[m].dist
         /\ \E k \in DOMAIN tasks[step][i].locs :
              DistOf(CollectedOf(i), tasks[step][i].locs[k]) > 0

\* what compute_ssd_flat returns when no row ends it early: line 463 for the
\* sum of all eight rows
CompleteSsd(img, w, x, y, ref_patch) ==
    RDiv(RowSsd(img, w, x, y, ref_patch, 0) + RowSsd(img, w, x, y, ref_patch, 1)
         + RowSsd(img, w, x, y, ref_patch, 2) + RowSsd(img, w, x, y, ref_patch, 3)
         + RowSsd(img, w, x, y, ref_patch, 4) + RowSsd(img, w, x, y, ref_patch, 5)
         + RowSsd(img, w, x, y, ref_patch, 6) + RowSsd(img, w, x, y, ref_patch, 7),
         BLOCK_AREA)

\* the sum over R, G and B of the completed channel distances between the
\* patch at (x, y) and the reference patch at (rx, ry)
CompleteTotal(channels, w, rx, ry, x, y) ==
    CompleteSsd(channels[0], w, x, y, extract_patch(channels[0], w, rx, ry))
    + CompleteSsd(channels[1], w, x, y, extract_patch(channels[1], w, rx, ry))
    + CompleteSsd(channels[2], w, x, y, extract_patch(channels[2], w, rx, ry))

\* the window locations other than the reference whose completed total
\* distance is under the threshold of the step
UnderThreshold(i) ==
    {loc \in {SearchWindow(width, height, ref_patches[i][1], ref_patches[i][2])[k] :
                k \in DOMAIN SearchWindow(width, height, ref_patches[i][1],
                                          ref_patches[i][2])} :
        /\ loc # ref_patches[i]
        /\ CompleteTotal(guide, width, ref_patches[i][1], ref_patches[i][2], loc[1], loc[2])
             < Threshold(is_step_1, params)}

\* the locations block matching stored for ref_patches[i], the reference aside
CollectedLocs(i) ==
    {<< CollectedOf(i)[j].x, CollectedOf(i)[j].y >> : j \in 2..Len(CollectedOf(i))}

\* C18: for the task that has just returned from block matching, the
\* collected candidates are the window locations other than the reference
\* whose completed total distance over R, G and B is under the threshold of
\* the step
C18_EarlyExitPureOptimisation ==
    pc \in {"tasks1", "tasks2"} =>
        \A i \in Started(step) :
            tasks[step][i].ch = 0 => CollectedLocs(i) = UnderThreshold(i)

\* 1e-4 and 1e-3 as f32
Tol1e4 == << 13743895, -37 >>

Tol1e3 == << 8589935, -33 >>

\* every element of seq a is within tol of the element of b, the difference
\* taken in f32
AllWithin(a, b, tol) ==
    \A j \in DOMAIN a : FAbsLeq(FSub(a[j], b[j]), tol)

\* the reconstructed stack is within tol of the stack, element by element
RoundTripWithin(tol) ==
    xform.at = "inverse" =>
        \A k \in 0..(xform.n - 1) : AllWithin(xform.out[k], xform.stack[k], tol)

\* walsh_hadamard_1d applied twice gives the vector back, within tol
HadamardTwiceWithin(tol) ==
    xform.at \in {"hadamard2", "forward", "inverse"} =>
        AllWithin(xform.col, FirstColumn(xform.stack, xform.n), tol)

\* transpose_8x8 applied twice gives the block back
TransposeTwiceIdentity ==
    xform.at \in {"transposed2", "hadamard", "hadamard2", "forward", "inverse"} =>
        xform.blk = xform.stack[0]

ThresholdedAsStated(t, h, n, th) ==
    /\ h[0][0] = t[0][0]
    /\ \A k \in 0..(n - 1) : \A i \in 0..63 :
         (k # 0 \/ i # 0) =>
            /\ Abs(t[k][i]) < th => h[k][i] = 0
            /\ Abs(t[k][i]) >= th => h[k][i] = t[k][i]

\* C21: hard_threshold leaves element 0 of the flattened stack unchanged
\* whatever its value, sets to zero exactly the other elements whose
\* absolute value is below the threshold and leaves the others unchanged;
\* the first element of a later patch is thresholded like any other
C21_HardThresholdKeepsFirstOnly ==
    xform.at \in {"thresholded", "wiener"} =>
        ThresholdedAsStated(xform.stack, xform.kept, xform.n, xform.th)

\* C21 witness: the first element of the stack is under the threshold, not
\* zero, and kept; the first element of the second patch is under the
\* threshold, not zero, and set to zero; a later element is kept
C21_Witness ==
    /\ xform.at = "thresholded"
    /\ xform.n >= 2
    /\ xform.stack[0][0] # 0
    /\ Abs(xform.stack[0][0]) < xform.th
    /\ xform.kept[0][0] = xform.stack[0][0]
    /\ xform.stack[1][0] # 0
    /\ xform.kept[1][0] = 0
    /\ \E e \in 1..63 : xform.kept[0][e] # 0

\* the number of non-zero coefficients of a stack of n patches
NonZeroCount(stack, n) ==
    Cardinality({e \in (0..(n - 1)) \X (0..63) : stack[e[1]][e[2]] # 0})

GainAsStated(g, sigma, c) ==
    LET f == (Max(Abs(g), sigma) \div 1400) + 1
        energy == RDiv(Abs(g), f) * RDiv(Abs(g), f)
        s2 == RDiv(sigma, f) * RDiv(sigma, f) + RDiv(10, f * f)
    IN /\ 0 <= c /\ c <= GS
       /\ 2 * Abs(c * (energy + s2) - energy * GS) <= energy + s2

\* the sum of the squared gains of elements i, i + 1, .., 63 of one patch of
\* the guide, in units of 1/(GS * GS)
RECURSIVE PatchGainSquares(_, _, _)
PatchGainSquares(patch, sigma, i) ==
    IF i = 64 THEN 0
    ELSE WienerCoef(patch[i], sigma) * WienerCoef(patch[i], sigma)
         + PatchGainSquares(patch, sigma, i + 1)

\* the sum of the squared gains of the elements of patches k, k + 1, ..,
\* the first element of the stack aside
RECURSIVE GainSquares(_, _, _, _)
GainSquares(gs, n, sigma, k) ==
    IF k = n THEN 0
    ELSE PatchGainSquares(gs[k], sigma, IF k = 0 THEN 1 ELSE 0)
         + GainSquares(gs, n, sigma, k + 1)

\* weight is 1 / (1 + sum / GS^2) in units of 1/FIXED_POINT_SCALE, to the
\* nearest unit; the sum is taken to 1/10000
WeightAsStated(weight, sum) ==
    /\ 0 < weight /\ weight <= FIXED_POINT_SCALE
    /\ 2 * Abs(weight * (10000 + RDiv(sum, (GS * GS) \div 10000))
               - 10000 * FIXED_POINT_SCALE)
          <= 10000 + RDiv(sum, (GS * GS) \div 10000)

\* C23: wiener_filter leaves the guide stack as it was, leaves element 0 of
\* the noisy stack unchanged, multiplies every other noisy element by
\* g = guide^2 / (guide^2 + sigma^2 + 1e-5), and returns
\* 1 / (1 + the sum of g^2 over the other elements), a weight in (0, 1]:
\* the fallback weight of an empty sum is not what it returns
C23_WienerGainAndWeight ==
    /\ [][xform'.guide = xform.guide /\ xform'.stack = xform.stack]_vars
    /\ [](xform.at = "wiener" =>
            /\ xform.filtered[0][0] = xform.stack[0][0]
            /\ \A k \in 0..(xform.n - 1) : \A i \in 0..63 :
                 (k # 0 \/ i # 0) =>
                    \E c \in {WienerCoef(xform.guide[k][i], xform.sigma)} :
                       /\ GainAsStated(xform.guide[k][i], xform.sigma, c)
                       /\ xform.filtered[k][i] = MulDivR(xform.stack[k][i], c, GS)
            /\ WeightAsStated(xform.wiener_weight,
                              GainSquares(xform.guide, xform.n, xform.sigma, 0)))

\* C23 witness: a stack of several patches whose first guide element is
\* zero and whose first noisy element is kept; some other element is
\* reduced but not to zero, and the weight is below 1
C23_Witness ==
    /\ xform.at = "wiener"
    /\ xform.n >= 2
    /\ xform.guide[0][0] = 0
    /\ xform.stack[0][0] # 0
    /\ xform.filtered[0][0] = xform.stack[0][0]
    /\ \E k \in 0..(xform.n - 1) : \E i \in 1..63 :
         /\ xform.filtered[k][i] # 0
         /\ Abs(xform.filtered[k][i]) < Abs(xform.stack[k][i])
    /\ xform.wiener_weight < FIXED_POINT_SCALE

\* idx of line 285 for the patch at loc and position pos = dy * 8 + dx
IdxOf(w, loc, pos) ==
    (loc[2] + (pos \div BLOCK_SIZE)) * w + loc[1] + (pos % BLOCK_SIZE)

\* the 64 positions of the patch at loc have 64 distinct indices below
\* w * h, and these are the cells the adds for the patch go to, each at its
\* own position
PatchAddsInBounds(w, h, loc) ==
    /\ \A pos \in 0..(BLOCK_AREA - 1) :
         /\ IdxOf(w, loc, pos) < w * h
         /\ PosOf(IdxOf(w, loc, pos), w, loc) = pos
    /\ Cardinality({index \in 0..(w * h - 1) : PosOf(index, w, loc) >= 0}) = BLOCK_AREA

\* cell index lies under a patch of the group, at a position where the
\* window is positive (dx and dy in 1..6)
UnderWindow(index, w, group_locs) ==
    \E k \in DOMAIN group_locs :
        /\ PosOf(index, w, group_locs[k]) >= 0
        /\ kaiser[PosOf(index, w, group_locs[k])] > 0

UnderPatch(index, w, group_locs) ==
    \E k \in DOMAIN group_locs : PosOf(index, w, group_locs[k]) >= 0

\* the step is the channel loop of task i for channel ch: every cell under
\* the window of a patch of its group has a greater denominator, and no cell
\* outside the patches of the group, and no cell of another channel, changes
ChannelAdds(i, ch) ==
    /\ \A index \in 0..(width * height - 1) :
         /\ UnderWindow(index, width, tasks[step][i].locs)
              => denominators'[ch][index] > denominators[ch][index]
         /\ ~UnderPatch(index, width, tasks[step][i].locs)
              => /\ denominators'[ch][index] = denominators[ch][index]
                 /\ numerators'[ch][index] = numerators[ch][index]
    /\ \A other \in 0..(NUM_CHANNELS - 1) :
         other # ch => /\ denominators'[other] = denominators[other]
                       /\ numerators'[other] = numerators[other]

\* C24: for every patch of a group and every position in it the task adds
\* to the numerator and to the denominator of the channel at index
\* (ly + dy) * width + lx + dx, which is below width * height, so that no add
\* is dropped: group_size * 64 adds to each, and every cell under the window
\* of a patch receives its contribution
C24_AddsLandInBounds ==
    /\ [](pc \in {"tasks1", "tasks2"} =>
            \A i \in Started(step) : \A k \in DOMAIN tasks[step][i].locs :
                PatchAddsInBounds(width, height, tasks[step][i].locs[k]))
    /\ [][\A i \in DOMAIN tasks[step] :
            (pc \in {"tasks1", "tasks2"} /\ pc' = pc
             /\ tasks[step][i].st = "running"
             /\ tasks'[step][i].ch = tasks[step][i].ch + 1)
                => ChannelAdds(i, tasks[step][i].ch)]_vars

\* C24 witness: a task has run a channel for a group of several patches, one
\* of them in the last block position of the image, and the cell before the
\* last of the row before the last has a denominator
C24_Witness ==
    /\ pc \in {"tasks1", "tasks2"}
    /\ \E i \in Started(step) :
         /\ tasks[step][i].ch >= 1
         /\ Len(tasks[step][i].locs) >= 2
         /\ \E k \in DOMAIN tasks[step][i].locs :
              tasks[step][i].locs[k] = << width - BLOCK_SIZE, height - BLOCK_SIZE >>
    /\ denominators[0][(height - 2) * width + width - 2] > 0

\* the output pixel q for the cells n and d as lines 301-305 state it: the
\* quotient when the denominator is above 1e-6, the numerator otherwise
OutputAsStated(q, n, d) ==
    IF d * 10 > 1 THEN q = FracDiv(n, d)
    ELSE q = RDiv(n, FIXED_POINT_SCALE \div VS)

OutputsAsStated(output) ==
    \A ch \in 0..(NUM_CHANNELS - 1) : \A index \in 0..(width * height - 1) :
        OutputAsStated(output[ch][index], numerators[ch][index], denominators[ch][index])

\* no task of pass s that has started has a patch over the cell
NoContribution(s, index) ==
    \A i \in Started(s) : ~UnderPatch(index, width, tasks[s][i].locs)

\* C25: after the tasks of a pass each output pixel is numerator/denominator
\* when the denominator is above 1e-6 and the numerator otherwise; the
\* accumulators start from zero in each pass, so a cell no task of the pass
\* has added to is zero (in pass 2 as in pass 1) and its pixel is output as 0
C25_FinalDivideFreshPerPass ==
    /\ pc = "step2" => OutputsAsStated(basic_estimate)
    /\ pc \in {"merge", "done"} => OutputsAsStated(denoised_channels)
    /\ pc \in {"tasks1", "tasks2", "step2", "merge", "done"} =>
         \A ch \in 0..(NUM_CHANNELS - 1) : \A index \in 0..(width * height - 1) :
            NoContribution(IF pc \in {"tasks1", "step2"} THEN 1 ELSE 2, index) =>
                /\ numerators[ch][index] = 0
                /\ denominators[ch][index] = 0
                /\ pc = "step2" => basic_estimate[ch][index] = 0
                /\ pc \in {"merge", "done"} => denoised_channels[ch][index] = 0

\* C25 witness: pass 2 is over, pass 1 had written a pixel that no task of
\* pass 2 added to and that is output as 0, and another pixel is a quotient
C25_Witness ==
    /\ pc = "merge"
    /\ \E index \in 0..(width * height - 1) :
         /\ NoContribution(2, index)
         /\ basic_estimate[0][index] > 0
         /\ denoised_channels[0][index] = 0
    /\ \E index \in 0..(width * height - 1) :
         /\ denominators[0][index] > 0
         /\ denoised_channels[0][index] > 0

\* the search window of ref_patches[i]
WindowOf(i) == SearchWindow(width, height, ref_patches[i][1], ref_patches[i][2])

\* the number of window locations whose total distance passes the test of
\* line 417, whether or not line 418 lets them be stored
PassedOf(i) ==
    Len(SelectSeq(ScanWindow(guide, width, ref_patches[i][1], ref_patches[i][2],
                             WindowOf(i),
                             extract_patch(guide[0], width, ref_patches[i][1], ref_patches[i][2]),
                             extract_patch(guide[1], width, ref_patches[i][1], ref_patches[i][2]),
                             extract_patch(guide[2], width, ref_patches[i][1], ref_patches[i][2]),
                             Threshold(is_step_1, params)),
                  LAMBDA m : m.dist >= 0))

\* C26: the candidate count of block matching is at most the number of
\* locations of the search window, which is at most 19 * 19 = 361 and so
\* below the 1024 entries of the candidate array; the count the task that has
\* just returned from block matching holds is the reference plus every
\* location that passed the threshold: the cap has discarded none
C26_CandidateCapNeverBites ==
    pc \in {"tasks1", "tasks2"} =>
        \A i \in Started(step) :
            /\ tasks[step][i].cands <= Len(WindowOf(i))
            /\ Len(WindowOf(i)) <= SEARCH_WINDOW * SEARCH_WINDOW
            /\ SEARCH_WINDOW * SEARCH_WINDOW = 361
            /\ tasks[step][i].cands <= MAX_CANDIDATES
            /\ tasks[step][i].ch = 0 => tasks[step][i].cands = 1 + PassedOf(i)

\* C26 witness: a task has collected the 361 candidates of a whole window
C26_Witness ==
    /\ pc \in {"tasks1", "tasks2"}
    /\ \E i \in Started(step) :
         /\ tasks[step][i].ch = 0
         /\ Len(WindowOf(i)) = 361
         /\ tasks[step][i].cands = 361

\* C27: every location block matching writes to the MatchSet is a location of
\* the window of its reference: within 9 of (rx, ry) in x and in y and at
\* most (width - 8, height - 8), for coordinates above 65,535 too
C27_MatchSetInWindow ==
    xform.at = "matched" =>
        \A k \in DOMAIN xform.out_buf :
            /\ Abs(xform.out_buf[k][1] - xform.rx) <= SEARCH_WINDOW \div 2
            /\ Abs(xform.out_buf[k][2] - xform.ry) <= SEARCH_WINDOW \div 2
            /\ xform.out_buf[k][1] <= xform.w - BLOCK_SIZE
            /\ xform.out_buf[k][2] <= xform.h - BLOCK_SIZE

\* the stack has n patches of 64 elements: n * 64 elements in all
StackOfSize(stack, n) ==
    /\ DOMAIN stack = 0..(n - 1)
    /\ \A k \in 0..(n - 1) : DOMAIN stack[k] = 0..(BLOCK_AREA - 1)

\* the indices j + h that lines 653-659 of walsh_hadamard_1d read in a slice
\* of n elements
HadamardReads(n) ==
    {i + d + h : << h, i, d >> \in
        {t \in {1, 2, 4, 8, 16} \X (0..(n - 1)) \X (0..15) :
            /\ t[1] < n
            /\ t[2] % (t[1] * 2) = 0
            /\ t[3] < t[1]}}

\* C28: in every call of the channel loop the group size is one of 1, 2, 4,
\* 8, 16, at most the 16 elements of the column buffer; the guide stack and
\* the noisy stack handed to transform_3d and inverse_transform_3d have
\* group_size * 64 elements; and walsh_hadamard_1d reads no element past the
\* end of its slice of group_size elements
C28_TransformCallsWellSized ==
    pc \in {"tasks1", "tasks2"} =>
        \A i \in Started(step) :
            /\ Len(tasks[step][i].locs) \in {1, 2, 4, 8, 16}
            /\ Len(tasks[step][i].locs) <= MAX_GROUP_SIZE
            /\ \A ch \in 0..(NUM_CHANNELS - 1) :
                 /\ StackOfSize(build_3d_group(guide[ch], width, tasks[step][i].locs),
                                Len(tasks[step][i].locs))
                 /\ StackOfSize(build_3d_group(noisy[ch], width, tasks[step][i].locs),
                                Len(tasks[step][i].locs))
            /\ HadamardReads(Len(tasks[step][i].locs))
                 \subseteq 0..(Len(tasks[step][i].locs) - 1)

\* C28 witness: a task has run a channel on a group cut down from a
\* candidate count that is no power of two
C28_Witness ==
    /\ pc \in {"tasks1", "tasks2"}
    /\ \E i \in Started(step) :
         /\ tasks[step][i].ch >= 1
         /\ tasks[step][i].cands \notin {1, 2, 4, 8, 16}
         /\ Len(tasks[step][i].locs) \in {2, 4, 8}

\* C29: the percentages of the events the tasks deliver to the sink never
\* decrease along the order of emission, whatever the interleaving of the
\* tasks, and every Step 1/2 event comes before every Step 2/2 event
C29_ProgressMonotone ==
    \A j \in DOMAIN xform.events : \A k \in DOMAIN xform.events :
        j < k => /\ xform.events[j].pct <= xform.events[k].pct
                 /\ ~(xform.events[j].msg = "Step 2/2" /\ xform.events[k].msg = "Step 1/2")

\* C30: a save writes nothing but the image of the most recent apply_denoising
\* call; when that call failed, or the stored result was taken by an earlier
\* save, the save writes no file and returns the "No denoised image found in
\* memory" error
C30_SaveWritesLatestOnly ==
    [][xform.at = "app" /\ xform'.saves = xform.saves + 1 =>
         /\ Len(xform'.files) > Len(xform.files) =>
              /\ xform'.files[Len(xform'.files)].image.call = xform.calls
              /\ xform.last_ok
         /\ (xform.calls = 0 \/ ~xform.last_ok \/ xform.taken) =>
              /\ xform'.files = xform.files
              /\ xform'.returned = NoImageError]_vars

====
